---- MODULE Spec2Model ----
(***************************************************************************)
(* A model of the core engine of pide (src/pide/pide.py, class pide): its  *)
(* state vectors, selections, cache flags and the setter / calculate       *)
(* methods that read and write them.                                       *)
(*                                                                         *)
(* Units.  Fractions are in thousandths (1000 = 1.0), interconnectivity    *)
(* exponents in tenths (10 = 1.0), temperatures in K, pressures in GPa.    *)
(* Arithmetic is exact; the code's is IEEE double.                         *)
(*                                                                         *)
(* Phases.  The engine has 16 minerals and 9 rocks handled by identical    *)
(* per-phase statements; the model keeps the first two of each family      *)
(* (ol, opx; granite, granulite) and leaves the others at their default 0. *)
(***************************************************************************)
EXTENDS Integers, Sequences, FiniteSets, TLC

VARIABLES
    T, p, depth,                       \* self.T, self.p, self.depth
    ol_frac, opx_frac,                 \* self.ol_frac, self.opx_frac
    granite_frac, granulite_frac,      \* self.granite_frac, self.granulite_frac
    ol_water, bulk_water,              \* pide.ol_water, self.bulk_water
    ol_xfe,                            \* pide.ol_xfe
    param,                             \* an attribute stored by set_parameter
    melt_fluid_mass_frac,              \* self.melt_fluid_mass_frac
    ol_m, granite_m, melt_fluid_m,     \* pide.ol_m, pide.granite_m, pide.melt_fluid_m
    ol_cond_selection,                 \* pide.ol_cond_selection
    granite_cond_selection,            \* pide.granite_cond_selection
    melt_cond_selection,               \* pide.melt_cond_selection
    fluid_cond_selection,              \* pide.fluid_cond_selection
    phs_mix_method, phs_melt_mix_method,
    fluid_or_melt_method, solid_phase_method,
    cond_calculated, temperature_default,
    density_loaded, water_fugacity_calculated,
    density_solids, water_fugacity, bulk_cond,
    ol_sol_choice, opx_sol_choice,     \* self.ol_sol_choice, self.opx_sol_choice
    garnet_sol_choice,                 \* self.garnet_sol_choice
    max_ol_water, max_opx_water,       \* whether self.max_ol_water / self.max_opx_water exist
    model_kind,                        \* which Model was constructed, if any
    material_array, model_T, melt_frac,        \* Model.material_array, .T, .melt_frac
    p_strain,                          \* Model.p_strain
    material_list, material_list_2,    \* Model.material_list, .material_list_2
    model_depth,                       \* Model.depth
    background_cond, maximum_cond,     \* Model.background_cond, .maximum_cond
    sliced_material_idx,               \* the index slices of the last Model call
    ret,                               \* what the last Model call returned
    other_formed, other_T,             \* a second pide instance: whether it exists, its self.T
    bckgr_res, solid_phase_cond,       \* self.bckgr_res, self.solid_phase_cond
    single_cond,                       \* cond of the last calculate_arrhenian_single
    opx_m,                             \* pide.opx_m
    mixed_cond,                        \* self.bulk_cond after phase_mixing_function
    gui_T, gui_ol_frac,                \* self.T and self.ol_frac of the GUI window
    gui_ol_cond_selection,             \* SEEL.ol_cond_selection
    param_file,                        \* the batch parameter file last written
    ol_calib, px_gt_calib,             \* pide.ol_calib, pide.px_gt_calib
    feldspar_calib,                    \* pide.feldspar_calib
    CORR_Factor,                       \* what the last Water_correction returned
    mesh, boundaries,                  \* the caller's mesh and boundaries objects
    written,                           \* the rows the last export handed to scipy.io.savemat
    call                               \* the last call: what was called, with what, how it ended

stateVecs == <<T, p, depth, ol_frac, opx_frac, granite_frac, granulite_frac,
               ol_water, bulk_water, ol_xfe, param, melt_fluid_mass_frac,
               ol_m, granite_m, melt_fluid_m>>
selections == <<ol_cond_selection, granite_cond_selection, melt_cond_selection,
                fluid_cond_selection, phs_mix_method, phs_melt_mix_method,
                fluid_or_melt_method, solid_phase_method>>
flags == <<cond_calculated, temperature_default, density_loaded,
           water_fugacity_calculated>>
caches == <<density_solids, water_fugacity, bulk_cond>>
\* The olivine / opx solubility choices and results.
solubility == <<ol_sol_choice, opx_sol_choice, garnet_sol_choice,
                max_ol_water, max_opx_water>>
\* The state the setters and calculations of T, p, composition, selections
\* and caches leave alone.
grid == <<model_kind, material_array, model_T, melt_frac, p_strain, material_list,
          material_list_2, model_depth, background_cond, maximum_cond,
          sliced_material_idx, ret>>
\* A second engine instance in the same process.
twin == <<other_formed, other_T>>
\* The background resistivity and the solid conductivity of the last mixing.
bypass == <<bckgr_res, solid_phase_cond>>
\* The water calibration choices and the last correction factor.
calib == <<ol_calib, px_gt_calib, feldspar_calib, CORR_Factor>>
\* The arguments and the output of the last MARE2DEM export.
mare == <<mesh, boundaries, written>>
\* The results of the functions applied outside a calculation.
\* The GUI window and its batch parameter file.
batch == <<gui_T, gui_ol_frac, gui_ol_cond_selection, param_file>>
extra == <<single_cond, opx_m, mixed_cond, batch>>
apart == <<calib, mare, extra>>
others == <<solubility, grid, twin, bypass, apart>>
\* All of them but pide.opx_m.
aside == <<solubility, grid, twin, bypass, calib, mare, single_cond, mixed_cond, batch>>
\* The state of the conductivity engine proper.
engine == <<stateVecs, selections, flags, caches>>
vars == <<engine, others, call>>

----------------------------------------------------------------------------
(* Bounds of the model.                                                    *)

\* Longest temperature array, and longest list handed to a setter.
MaxLen == 2

----------------------------------------------------------------------------
(* Program constants.                                                      *)

CompLow == 990          \* 0.99, lower edge of check_composition
CompHigh == 1010        \* 1.01, upper edge of check_composition
MinExponent == 10       \* 1, the smallest interconnectivity exponent
DefaultSolidM == 40     \* 4, default solid interconnectivity
DefaultMeltM == 80      \* 8.0, default melt/fluid interconnectivity
DefaultXfe == 100       \* 0.1, default xfe
\* The water calibration codes: the defaults of set_watercalib and the
\* largest codes it accepts.
DefaultOlCalib == 3
DefaultCalib == 2
MaxOlCalib == 3
MaxCalib == 2
DefaultT == 900
DefaultP == 1
DepthPerGPa == 33
MaxMixIndex == 6        \* the index the mix-method setters compare with
NumMixLaws == 6         \* the mixing laws phase_mixing_function defines: 0..5
\* len(self.name[i]): the number of models read_cond_models loads for a phase
\* from its CSV table; the model gives every phase the same number.
NumModels == 2

----------------------------------------------------------------------------
(* Values handed to the methods.  A value is a Python int/float (scalar),  *)
(* a list, or a numpy array.                                               *)

Scalar(v) == [kind |-> "scalar", x |-> v, xs |-> <<>>]
List(s) == [kind |-> "list", x |-> 0, xs |-> s]
NdArray(s) == [kind |-> "ndarray", x |-> 0, xs |-> s]

SeqsOver(S, lo, hi) == UNION {[1..n -> S] : n \in lo..hi}

Fill(n, v) == [i \in 1..n |-> v]

AnyBelow(s, v) == \E i \in 1..Len(s) : s[i] < v

\* An array_modifier that returns a list or array of any length as given.
array_modifier_any_length(input, array) ==
    IF input.kind = "scalar"
    THEN [raised |-> "none", arr |-> Fill(Len(array), input.x)]
    ELSE IF Len(input.xs) = 1
         THEN [raised |-> "none", arr |-> Fill(Len(array), input.xs[1])]
         ELSE [raised |-> "none", arr |-> input.xs]

\* array_modifier: a scalar is broadcast to len(array); a one-element list or
\* array is broadcast too; any other list or array is returned as it is when
\* its length is len(array), and raises RuntimeError otherwise.
array_modifier(input, array) ==
    IF input.kind = "scalar"
    THEN [raised |-> "none", arr |-> Fill(Len(array), input.x)]
    ELSE IF Len(input.xs) = 1
         THEN [raised |-> "none", arr |-> Fill(Len(array), input.xs[1])]
         ELSE IF Len(input.xs) # Len(array)
              THEN [raised |-> "RuntimeError", arr |-> <<>>]
              ELSE [raised |-> "none", arr |-> input.xs]

\* What a method call leaves in `call`.
Call(op, args, raised, printed) ==
    [op |-> op, args |-> args, raised |-> raised, printed |-> printed]

\* suggestion_temp_array is printed by a setter that finds temperature_default set.
Advisory == IF temperature_default THEN 1 ELSE 0

----------------------------------------------------------------------------
(* The engine after construction (form_object).                            *)

NoDensity == [set |-> FALSE, mode |-> 0, fracs |-> <<>>, sels |-> <<>>,
              T |-> <<>>, p |-> <<>>, xfe |-> <<>>]
NoFugacity == [set |-> FALSE, T |-> <<>>, p |-> <<>>]
NoCond == [set |-> FALSE, method |-> 0, law |-> FALSE]

Init ==
    /\ T = <<DefaultT>>
    /\ p = <<DefaultP>>
    /\ depth = <<DefaultP * DepthPerGPa>>
    /\ ol_frac = <<0>> /\ opx_frac = <<0>>
    /\ granite_frac = <<0>> /\ granulite_frac = <<0>>
    /\ ol_water = <<0>> /\ bulk_water = <<0>>
    /\ ol_xfe = <<DefaultXfe>>
    /\ param = <<0>>
    /\ melt_fluid_mass_frac = <<0>>
    /\ ol_m = <<DefaultSolidM>> /\ granite_m = <<DefaultSolidM>>
    /\ melt_fluid_m = <<DefaultMeltM>>
    /\ ol_cond_selection = 0 /\ granite_cond_selection = 0
    /\ melt_cond_selection = 0 /\ fluid_cond_selection = 0
    /\ phs_mix_method = 0 /\ phs_melt_mix_method = 0
    /\ fluid_or_melt_method = 1
    /\ solid_phase_method = 2
    /\ cond_calculated = FALSE
    /\ temperature_default = TRUE
    /\ density_loaded = FALSE
    /\ water_fugacity_calculated = FALSE
    /\ density_solids = NoDensity
    /\ water_fugacity = NoFugacity
    /\ bulk_cond = NoCond
    /\ ol_sol_choice = 0 /\ opx_sol_choice = 0 /\ garnet_sol_choice = 0
    /\ max_ol_water = FALSE /\ max_opx_water = FALSE
    /\ model_kind = "none"
    /\ material_array = <<>> /\ model_T = <<>> /\ melt_frac = <<>>
    /\ p_strain = <<>>
    /\ material_list = <<>> /\ material_list_2 = <<>>
    /\ model_depth = <<>>
    /\ background_cond = <<>> /\ maximum_cond = <<>>
    /\ sliced_material_idx = <<>>
    /\ ret = <<>>
    /\ other_formed = FALSE /\ other_T = <<>>
    /\ bckgr_res = <<>> /\ solid_phase_cond = <<>>
    /\ ol_calib = DefaultOlCalib
    /\ px_gt_calib = DefaultCalib /\ feldspar_calib = DefaultCalib
    /\ CORR_Factor = <<>>
    /\ mesh = <<>> /\ boundaries = <<>> /\ written = <<>>
    /\ single_cond = 0
    /\ opx_m = <<DefaultSolidM>>
    /\ mixed_cond = <<>>
    /\ gui_T = <<500000>> /\ gui_ol_frac = <<0>> /\ gui_ol_cond_selection = 0
    /\ param_file = <<>>
    /\ call = Call("form_object", <<>>, "none", 0)

----------------------------------------------------------------------------
(* set_temperature, set_pressure, set_depth                                *)

\* A set_temperature that also resets cond_calculated.
set_temperature_resets_cond(Tin) ==
    /\ T' = Tin.xs
    /\ IF AnyBelow(Tin.xs, 0)
       THEN /\ call' = Call("set_temperature", <<Tin>>, "ValueError", 0)
            /\ UNCHANGED <<temperature_default, water_fugacity_calculated,
                           density_loaded, cond_calculated>>
       ELSE /\ call' = Call("set_temperature", <<Tin>>, "none", 0)
            /\ temperature_default' = FALSE
            /\ water_fugacity_calculated' = FALSE
            /\ density_loaded' = FALSE
            /\ cond_calculated' = FALSE
    /\ UNCHANGED <<p, depth, ol_frac, opx_frac, granite_frac, granulite_frac,
                   ol_water, bulk_water, ol_xfe, param, melt_fluid_mass_frac,
                   ol_m, granite_m, melt_fluid_m, selections, caches, others>>

\* self.T is assigned first; a negative element then raises ValueError before
\* any flag is touched.
set_temperature(Tin) ==
    /\ T' = Tin.xs
    /\ IF AnyBelow(Tin.xs, 0)
       THEN /\ call' = Call("set_temperature", <<Tin>>, "ValueError", 0)
            /\ UNCHANGED <<temperature_default, water_fugacity_calculated, density_loaded>>
       ELSE /\ call' = Call("set_temperature", <<Tin>>, "none", 0)
            /\ temperature_default' = FALSE
            /\ water_fugacity_calculated' = FALSE
            /\ density_loaded' = FALSE
    /\ UNCHANGED <<p, depth, ol_frac, opx_frac, granite_frac, granulite_frac,
                   ol_water, bulk_water, ol_xfe, param, melt_fluid_mass_frac,
                   ol_m, granite_m, melt_fluid_m, selections, cond_calculated, caches, others>>

\* A set_pressure that stores a list or array without comparing its length
\* with len(T).
set_pressure_unchecked(P) ==
    LET newp == IF P.kind = "scalar" THEN Fill(Len(T), P.x) ELSE P.xs
    IN /\ p' = newp
       /\ call' = Call("set_pressure", <<P>>, "none", 0)
       /\ depth' = [i \in 1..Len(newp) |-> newp[i] * DepthPerGPa]
       /\ water_fugacity_calculated' = FALSE
       /\ density_loaded' = FALSE
       /\ UNCHANGED <<T, ol_frac, opx_frac, granite_frac, granulite_frac,
                      ol_water, bulk_water, ol_xfe, param, melt_fluid_mass_frac,
                      ol_m, granite_m, melt_fluid_m, selections, cond_calculated,
                      temperature_default, caches, others>>

\* A scalar P has no len(): the TypeError handler broadcasts it.  A list or
\* array is stored as it is and a length other than len(T) raises ValueError,
\* with self.p already replaced.  set_depth('auto') follows a stored pressure.
set_pressure(P) ==
    LET newp == IF P.kind = "scalar" THEN Fill(Len(T), P.x) ELSE P.xs
        bad == P.kind # "scalar" /\ Len(P.xs) # Len(T)
    IN /\ p' = newp
       /\ IF bad
          THEN /\ call' = Call("set_pressure", <<P>>, "ValueError", 0)
               /\ UNCHANGED <<depth, water_fugacity_calculated, density_loaded>>
          ELSE /\ call' = Call("set_pressure", <<P>>, "none", 0)
               /\ depth' = [i \in 1..Len(newp) |-> newp[i] * DepthPerGPa]
               /\ water_fugacity_calculated' = FALSE
               /\ density_loaded' = FALSE
       /\ UNCHANGED <<T, ol_frac, opx_frac, granite_frac, granulite_frac,
                      ol_water, bulk_water, ol_xfe, param, melt_fluid_mass_frac,
                      ol_m, granite_m, melt_fluid_m, selections, cond_calculated,
                      temperature_default, caches, others>>

\* set_depth with an explicit depth (not 'auto').
set_depth(d) ==
    LET r == array_modifier(d, T)
    IN /\ call' = Call("set_depth", <<d>>, r.raised, 0)
       /\ IF r.raised = "none"
          THEN depth' = r.arr /\ density_loaded' = FALSE
          ELSE UNCHANGED <<depth, density_loaded>>
       /\ UNCHANGED <<T, p, ol_frac, opx_frac, granite_frac, granulite_frac,
                      ol_water, bulk_water, ol_xfe, param, melt_fluid_mass_frac,
                      ol_m, granite_m, melt_fluid_m, selections, cond_calculated,
                      temperature_default, water_fugacity_calculated, caches, others>>

----------------------------------------------------------------------------
(* Composition setters                                                     *)

Flag(b) == Scalar(IF b THEN 1 ELSE 0)

\* Two consecutive "x = self.array_modifier(...)" statements: the first that
\* raises ends the method, with the assignments before it already made.
AssignPair(in1, in2, old1, old2) ==
    LET r1 == array_modifier(in1, T)
        r2 == array_modifier(in2, T)
    IN IF r1.raised # "none"
       THEN [raised |-> r1.raised, f1 |-> old1, f2 |-> old2]
       ELSE IF r2.raised # "none"
            THEN [raised |-> r2.raised, f1 |-> r1.arr, f2 |-> old2]
            ELSE [raised |-> "none", f1 |-> r1.arr, f2 |-> r2.arr]

\* A check_composition that lets the two edges of the band through.
check_composition_edges_pass(tot) ==
    /\ ~ \E i \in 1..Len(tot) : tot[i] < CompLow
    /\ ~ \E i \in 1..Len(tot) : tot[i] > CompHigh

\* check_composition: False when any sample's total is <= 0.99 or >= 1.01.
check_composition(tot) ==
    /\ ~ \E i \in 1..Len(tot) : tot[i] <= CompLow
    /\ ~ \E i \in 1..Len(tot) : tot[i] >= CompHigh

\* The body shared by the two composition setters, after the advisory: the
\* assignments, the below-zero check, check_composition.
CompositionOutcome(in1, in2, old1, old2, reval, overlookError) ==
    LET a == IF reval
             THEN AssignPair(NdArray(old1), NdArray(old2), old1, old2)
             ELSE AssignPair(in1, in2, old1, old2)
        tot == [i \in 1..Len(a.f1) |-> a.f1[i] + a.f2[i]]
    IN IF a.raised # "none"
       THEN a
       ELSE IF ~overlookError /\ (AnyBelow(a.f1, 0) \/ AnyBelow(a.f2, 0))
            THEN [a EXCEPT !.raised = "ValueError"]
            ELSE IF ~overlookError /\ ~check_composition(tot)
                 THEN [a EXCEPT !.raised = "ValueError"]
                 ELSE a

set_composition_solid_mineral(ol, opx, reval, overlookError) ==
    LET o == CompositionOutcome(ol, opx, ol_frac, opx_frac, reval, overlookError)
    IN /\ ol_frac' = o.f1
       /\ opx_frac' = o.f2
       /\ density_loaded' = IF o.raised = "none" THEN FALSE ELSE density_loaded
       /\ call' = Call("set_composition_solid_mineral",
                       <<ol, opx, Flag(reval), Flag(overlookError)>>, o.raised, Advisory)
       /\ UNCHANGED <<T, p, depth, granite_frac, granulite_frac,
                      ol_water, bulk_water, ol_xfe, param, melt_fluid_mass_frac,
                      ol_m, granite_m, melt_fluid_m, selections, cond_calculated,
                      temperature_default, water_fugacity_calculated, caches, others>>

set_composition_solid_rock(granite, granulite, reval, overlookError) ==
    LET o == CompositionOutcome(granite, granulite, granite_frac, granulite_frac,
                                reval, overlookError)
    IN /\ granite_frac' = o.f1
       /\ granulite_frac' = o.f2
       /\ density_loaded' = IF o.raised = "none" THEN FALSE ELSE density_loaded
       /\ call' = Call("set_composition_solid_rock",
                       <<granite, granulite, Flag(reval), Flag(overlookError)>>,
                       o.raised, Advisory)
       /\ UNCHANGED <<T, p, depth, ol_frac, opx_frac,
                      ol_water, bulk_water, ol_xfe, param, melt_fluid_mass_frac,
                      ol_m, granite_m, melt_fluid_m, selections, cond_calculated,
                      temperature_default, water_fugacity_calculated, caches, others>>

----------------------------------------------------------------------------
(* Water, xfe, parameter and melt/fluid-fraction setters                   *)

\* set_mineral_water: the assignment is made before the below-zero check.
MineralWaterOutcome(ol, reval, overlookError) ==
    LET r == array_modifier(IF reval THEN NdArray(ol_water) ELSE ol, T)
    IN IF r.raised # "none"
       THEN [raised |-> r.raised, arr |-> ol_water]
       ELSE IF ~overlookError /\ AnyBelow(r.arr, 0)
            THEN [raised |-> "ValueError", arr |-> r.arr]
            ELSE r

set_mineral_water(ol, reval, overlookError) ==
    LET o == MineralWaterOutcome(ol, reval, overlookError)
    IN /\ ol_water' = o.arr
       /\ call' = Call("set_mineral_water", <<ol, Flag(reval), Flag(overlookError)>>,
                       o.raised, Advisory)
       /\ UNCHANGED <<T, p, depth, ol_frac, opx_frac, granite_frac, granulite_frac,
                      bulk_water, ol_xfe, param, melt_fluid_mass_frac,
                      ol_m, granite_m, melt_fluid_m, selections, flags, caches, others>>

\* set_bulk_water stores the value, then runs set_mineral_water() with no
\* argument (every mineral water back to 0, a second advisory), and only then
\* looks for a value below zero.
set_bulk_water(value) ==
    LET r == array_modifier(value, T)
    IN IF r.raised # "none"
       THEN /\ call' = Call("set_bulk_water", <<value>>, r.raised, Advisory)
            /\ UNCHANGED <<stateVecs, selections, flags, caches, others>>
       ELSE /\ bulk_water' = r.arr
            /\ ol_water' = Fill(Len(T), 0)
            /\ call' = Call("set_bulk_water", <<value>>,
                            IF AnyBelow(r.arr, 0) THEN "ValueError" ELSE "none",
                            2 * Advisory)
            /\ UNCHANGED <<T, p, depth, ol_frac, opx_frac, granite_frac, granulite_frac,
                           ol_xfe, param, melt_fluid_mass_frac,
                           ol_m, granite_m, melt_fluid_m, selections, flags, caches, others>>

set_xfe_mineral(ol, reval) ==
    LET r == array_modifier(IF reval THEN NdArray(ol_xfe) ELSE ol, T)
    IN /\ call' = Call("set_xfe_mineral", <<ol, Flag(reval)>>, r.raised, Advisory)
       /\ IF r.raised = "none"
          THEN ol_xfe' = r.arr /\ density_loaded' = FALSE
          ELSE UNCHANGED <<ol_xfe, density_loaded>>
       /\ UNCHANGED <<T, p, depth, ol_frac, opx_frac, granite_frac, granulite_frac,
                      ol_water, bulk_water, param, melt_fluid_mass_frac,
                      ol_m, granite_m, melt_fluid_m, selections, cond_calculated,
                      temperature_default, water_fugacity_calculated, caches, others>>

\* set_parameter: setattr(self, param_name, array_modifier(value, self.T)),
\* for a param_name that is none of the engine's own state vectors.
set_parameter(value) ==
    LET r == array_modifier(value, T)
    IN /\ call' = Call("set_parameter", <<value>>, r.raised, 0)
       /\ param' = IF r.raised = "none" THEN r.arr ELSE param
       /\ UNCHANGED <<T, p, depth, ol_frac, opx_frac, granite_frac, granulite_frac,
                      ol_water, bulk_water, ol_xfe, melt_fluid_mass_frac,
                      ol_m, granite_m, melt_fluid_m, selections, flags, caches, others>>

set_melt_fluid_frac(value) ==
    LET r == array_modifier(value, T)
    IN /\ melt_fluid_mass_frac' = IF r.raised = "none" THEN r.arr ELSE melt_fluid_mass_frac
       /\ call' = Call("set_melt_fluid_frac", <<value>>,
                       IF r.raised # "none" THEN r.raised
                       ELSE IF AnyBelow(r.arr, 0) THEN "ValueError" ELSE "none",
                       Advisory)
       /\ UNCHANGED <<T, p, depth, ol_frac, opx_frac, granite_frac, granulite_frac,
                      ol_water, bulk_water, ol_xfe, param,
                      ol_m, granite_m, melt_fluid_m, selections, flags, caches, others>>

----------------------------------------------------------------------------
(* Interconnectivity setters                                               *)

\* The mineral exponents are assigned before the rock exponents, pide.opx_m
\* right after pide.ol_m (from the default 4 when 'opx' is not given); the
\* checks against 1 come after all the assignments.
InterconnectivityOutcome(ol, granite, reval, overlookError) ==
    LET r1 == array_modifier(IF reval THEN NdArray(ol_m) ELSE ol, T)
        ro == array_modifier(IF reval THEN NdArray(opx_m) ELSE Scalar(DefaultSolidM), T)
        r2 == array_modifier(IF reval THEN NdArray(granite_m) ELSE granite, T)
    IN IF r1.raised # "none"
       THEN [raised |-> r1.raised, f1 |-> ol_m, opx |-> opx_m, f2 |-> granite_m]
       ELSE IF ro.raised # "none"
       THEN [raised |-> ro.raised, f1 |-> r1.arr, opx |-> opx_m, f2 |-> granite_m]
       ELSE IF r2.raised # "none"
       THEN [raised |-> r2.raised, f1 |-> r1.arr, opx |-> ro.arr, f2 |-> granite_m]
       ELSE [raised |-> IF ~overlookError
                           /\ (\/ AnyBelow(r1.arr, MinExponent)
                               \/ AnyBelow(ro.arr, MinExponent)
                               \/ AnyBelow(r2.arr, MinExponent))
                        THEN "ValueError" ELSE "none",
             f1 |-> r1.arr, opx |-> ro.arr, f2 |-> r2.arr]

set_phase_interconnectivities(ol, granite, reval, overlookError) ==
    LET o == InterconnectivityOutcome(ol, granite, reval, overlookError)
    IN /\ ol_m' = o.f1
       /\ opx_m' = o.opx
       /\ granite_m' = o.f2
       /\ call' = Call("set_phase_interconnectivities",
                       <<ol, granite, Flag(reval), Flag(overlookError)>>, o.raised, Advisory)
       /\ UNCHANGED <<T, p, depth, ol_frac, opx_frac, granite_frac, granulite_frac,
                      ol_water, bulk_water, ol_xfe, param, melt_fluid_mass_frac,
                      melt_fluid_m, selections, flags, caches, aside>>

\* "pide.melt_fluid_m.any() < 1.0": any() is a bool, True when some element is
\* not zero, and a bool is below 1.0 only when it is False.
MeltExponentRejected(arr) == ~ \E i \in 1..Len(arr) : arr[i] # 0

\* value is a scalar or a list (None stands for the default 8.0).
set_melt_fluid_interconnectivity(value, reval) ==
    LET r == array_modifier(IF reval THEN NdArray(melt_fluid_m) ELSE value, T)
        arr == IF r.raised = "none" THEN r.arr ELSE melt_fluid_m
    IN /\ melt_fluid_m' = arr
       /\ call' = Call("set_melt_fluid_interconnectivity", <<value, Flag(reval)>>,
                       IF r.raised # "none" THEN r.raised
                       ELSE IF MeltExponentRejected(arr) THEN "ValueError" ELSE "none",
                       0)
       /\ UNCHANGED <<T, p, depth, ol_frac, opx_frac, granite_frac, granulite_frac,
                      ol_water, bulk_water, ol_xfe, param, melt_fluid_mass_frac,
                      ol_m, granite_m, selections, flags, caches, others>>


----------------------------------------------------------------------------
(* revalue_arrays: every setter run again on the engine's own vectors       *)

\* How a setter that broadcasts and then rejects values below `least` ends.
RevalRaised(r, least) ==
    IF r.raised # "none" THEN r.raised
    ELSE IF AnyBelow(r.arr, least) THEN "ValueError" ELSE "none"

\* revalue_arrays(): set_temperature(self.T), set_pressure(self.p),
\* set_bulk_water(self.bulk_water), set_melt_fluid_frac(...), then the
\* composition, water and xfe setters of the active mode with reval = True,
\* set_phase_interconnectivities(reval = True) and, under melt mixing method
\* 0, set_melt_fluid_interconnectivity(reval = True).  The first setter that
\* raises ends it; what the setters before it assigned stays.
revalue_arrays ==
    LET mineral == solid_phase_method = 2
        rock == solid_phase_method = 1
        bw == array_modifier(NdArray(bulk_water), T)
        mf == array_modifier(NdArray(melt_fluid_mass_frac), T)
        comp == IF mineral
                THEN CompositionOutcome(Scalar(0), Scalar(0), ol_frac, opx_frac, TRUE, TRUE)
                ELSE CompositionOutcome(Scalar(0), Scalar(0), granite_frac, granulite_frac,
                                        TRUE, TRUE)
        xfe == array_modifier(NdArray(ol_xfe), T)
        m == InterconnectivityOutcome(Scalar(0), Scalar(0), TRUE, FALSE)
        mm == array_modifier(NdArray(melt_fluid_m), T)
        errs == << IF AnyBelow(T, 0) THEN "ValueError" ELSE "none",
                   IF Len(p) # Len(T) THEN "ValueError" ELSE "none",
                   RevalRaised(bw, 0),
                   RevalRaised(mf, 0),
                   IF mineral \/ rock THEN comp.raised ELSE "none",
                   IF mineral THEN xfe.raised ELSE "none",
                   m.raised,
                   IF phs_melt_mix_method # 0 THEN "none"
                   ELSE IF mm.raised # "none" THEN mm.raised
                   ELSE IF MeltExponentRejected(mm.arr) THEN "ValueError" ELSE "none" >>
        Reached(k) == \A j \in 1..(k - 1) : errs[j] = "none"
        Passed(k) == Reached(k + 1)
        failed == {k \in 1..Len(errs) : Reached(k) /\ errs[k] # "none"}
    IN /\ T' = T
       /\ p' = p
       /\ temperature_default' = IF Passed(1) THEN FALSE ELSE temperature_default
       /\ water_fugacity_calculated' = IF Passed(1) THEN FALSE ELSE water_fugacity_calculated
       /\ density_loaded' = IF Passed(1) THEN FALSE ELSE density_loaded
       /\ depth' = IF Passed(2) THEN [i \in 1..Len(p) |-> p[i] * DepthPerGPa] ELSE depth
       /\ bulk_water' = IF Reached(3) /\ bw.raised = "none" THEN bw.arr ELSE bulk_water
       /\ ol_water' = IF Reached(3) /\ bw.raised = "none" THEN Fill(Len(T), 0) ELSE ol_water
       /\ melt_fluid_mass_frac' = IF Reached(4) /\ mf.raised = "none" THEN mf.arr
                                  ELSE melt_fluid_mass_frac
       /\ ol_frac' = IF Reached(5) /\ mineral THEN comp.f1 ELSE ol_frac
       /\ opx_frac' = IF Reached(5) /\ mineral THEN comp.f2 ELSE opx_frac
       /\ granite_frac' = IF Reached(5) /\ rock THEN comp.f1 ELSE granite_frac
       /\ granulite_frac' = IF Reached(5) /\ rock THEN comp.f2 ELSE granulite_frac
       /\ ol_xfe' = IF Reached(6) /\ mineral /\ xfe.raised = "none" THEN xfe.arr ELSE ol_xfe
       /\ ol_m' = IF Reached(7) THEN m.f1 ELSE ol_m
       /\ opx_m' = IF Reached(7) THEN m.opx ELSE opx_m
       /\ granite_m' = IF Reached(7) THEN m.f2 ELSE granite_m
       /\ melt_fluid_m' = IF Reached(8) /\ phs_melt_mix_method = 0 /\ mm.raised = "none"
                          THEN mm.arr ELSE melt_fluid_m
       /\ call' = Call("revalue_arrays", <<>>,
                       IF failed = {} THEN "none" ELSE errs[CHOOSE k \in failed : TRUE], 0)
       /\ UNCHANGED <<param, selections, cond_calculated, caches, aside>>

----------------------------------------------------------------------------
(* Selection and mode setters                                              *)

\* The test of the three *_conductivity_choice setters on one selection.
ChoiceRejected(sel, nmodels) == sel < 0 \/ sel > nmodels

set_mineral_conductivity_choice(ol) ==
    /\ ol_cond_selection' = ol
    /\ IF ChoiceRejected(ol, NumModels)
       THEN /\ call' = Call("set_mineral_conductivity_choice", <<Scalar(ol)>>, "ValueError", 0)
            /\ UNCHANGED density_loaded
       ELSE /\ call' = Call("set_mineral_conductivity_choice", <<Scalar(ol)>>, "none", 0)
            /\ density_loaded' = FALSE
    /\ UNCHANGED <<stateVecs, granite_cond_selection, melt_cond_selection,
                   fluid_cond_selection, phs_mix_method, phs_melt_mix_method,
                   fluid_or_melt_method, solid_phase_method, cond_calculated,
                   temperature_default, water_fugacity_calculated, caches, others>>

set_rock_conductivity_choice(granite) ==
    /\ granite_cond_selection' = granite
    /\ IF ChoiceRejected(granite, NumModels)
       THEN /\ call' = Call("set_rock_conductivity_choice", <<Scalar(granite)>>, "ValueError", 0)
            /\ UNCHANGED density_loaded
       ELSE /\ call' = Call("set_rock_conductivity_choice", <<Scalar(granite)>>, "none", 0)
            /\ density_loaded' = FALSE
    /\ UNCHANGED <<stateVecs, ol_cond_selection, melt_cond_selection,
                   fluid_cond_selection, phs_mix_method, phs_melt_mix_method,
                   fluid_or_melt_method, solid_phase_method, cond_calculated,
                   temperature_default, water_fugacity_calculated, caches, others>>

set_melt_fluid_conductivity_choice(melt, fluid) ==
    /\ melt_cond_selection' = melt
    /\ fluid_cond_selection' = fluid
    /\ call' = Call("set_melt_fluid_conductivity_choice", <<Scalar(melt), Scalar(fluid)>>,
                    IF ChoiceRejected(melt, NumModels) \/ ChoiceRejected(fluid, NumModels)
                    THEN "ValueError" ELSE "none", 0)
    /\ UNCHANGED <<stateVecs, ol_cond_selection, granite_cond_selection,
                   phs_mix_method, phs_melt_mix_method,
                   fluid_or_melt_method, solid_phase_method, flags, caches, others>>

\* The test of the two mix-method setters.
MixMethodRejected(method) == method < 0 \/ method > MaxMixIndex

set_solid_phs_mix_method(method) ==
    /\ phs_mix_method' = method
    /\ call' = Call("set_solid_phs_mix_method", <<Scalar(method)>>,
                    IF MixMethodRejected(method) THEN "ValueError" ELSE "none", 0)
    /\ UNCHANGED <<stateVecs, ol_cond_selection, granite_cond_selection,
                   melt_cond_selection, fluid_cond_selection, phs_melt_mix_method,
                   fluid_or_melt_method, solid_phase_method, flags, caches, others>>

set_solid_melt_fluid_mix_method(method) ==
    /\ phs_melt_mix_method' = method
    /\ call' = Call("set_solid_melt_fluid_mix_method", <<Scalar(method)>>,
                    IF MixMethodRejected(method) THEN "ValueError" ELSE "none", 0)
    /\ UNCHANGED <<stateVecs, ol_cond_selection, granite_cond_selection,
                   melt_cond_selection, fluid_cond_selection, phs_mix_method,
                   fluid_or_melt_method, solid_phase_method, flags, caches, others>>

\* mode is 'mineral' (2), 'rock' (1) or any other string.
set_solid_phase_method(mode) ==
    /\ IF mode \in {"mineral", "rock"}
       THEN /\ solid_phase_method' = IF mode = "mineral" THEN 2 ELSE 1
            /\ density_loaded' = FALSE
            /\ call' = Call("set_solid_phase_method",
                            <<Scalar(IF mode = "mineral" THEN 2 ELSE 1)>>, "none", 0)
       ELSE /\ UNCHANGED <<solid_phase_method, density_loaded>>
            /\ call' = Call("set_solid_phase_method", <<Scalar(0)>>, "ValueError", 0)
    /\ UNCHANGED <<stateVecs, ol_cond_selection, granite_cond_selection,
                   melt_cond_selection, fluid_cond_selection, phs_mix_method,
                   phs_melt_mix_method, fluid_or_melt_method, cond_calculated,
                   temperature_default, water_fugacity_calculated, caches, others>>

----------------------------------------------------------------------------
(* Cached calculations                                                     *)

Sum(s) == LET RECURSIVE Up(_)
              Up(n) == IF n = 0 THEN 0 ELSE s[n] + Up(n - 1)
          IN Up(Len(s))

\* np.mean(x) != 0
MeanNonZero(s) == Sum(s) # 0

\* numpy combines two 1D arrays when their lengths are equal or one is 1.
Compatible(S) == Cardinality({n \in S : n # 1}) <= 1

\* A Python list of nmodels entries takes the indices -nmodels .. nmodels - 1.
IndexOK(sel, nmodels) == sel >= -nmodels /\ sel < nmodels

\* The density is kept as the values it was computed from.  Rock mode reads
\* the rock fractions and the rock selections, and its last statement keeps
\* the sum for the last sample only.
RockDensity ==
    [set |-> TRUE, mode |-> 1,
     fracs |-> <<granite_frac[Len(T)], granulite_frac[Len(T)]>>,
     sels |-> <<granite_cond_selection>>, T |-> <<>>, p |-> <<>>, xfe |-> <<>>]

\* Mineral mode reads the mineral fractions, the mineral selections, T, p
\* and xfe.
MineralDensity ==
    [set |-> TRUE, mode |-> 2, fracs |-> <<ol_frac, opx_frac>>,
     sels |-> <<ol_cond_selection>>, T |-> T, p |-> p, xfe |-> ol_xfe]

\* What calculate_density_solid leaves: the exception raised, if any, with
\* density_loaded and density_solids.  In mineral mode density_loaded is set
\* before the final sum over the phases, which numpy refuses for arrays of
\* different lengths; the per-mineral densities come from T and p.
DensityStep ==
    IF density_loaded
    THEN [raised |-> "none", loaded |-> TRUE, dens |-> density_solids]
    ELSE IF solid_phase_method = 1
         THEN IF ~IndexOK(granite_cond_selection, NumModels)
              THEN [raised |-> "IndexError", loaded |-> FALSE, dens |-> density_solids]
              ELSE IF Len(granite_frac) < Len(T) \/ Len(granulite_frac) < Len(T)
                   THEN [raised |-> "IndexError", loaded |-> FALSE, dens |-> NoDensity]
                   ELSE [raised |-> "none", loaded |-> TRUE, dens |-> RockDensity]
         ELSE IF MeanNonZero(ol_frac) /\ ~IndexOK(ol_cond_selection, NumModels)
              THEN [raised |-> "IndexError", loaded |-> FALSE, dens |-> density_solids]
              ELSE IF (MeanNonZero(ol_frac) \/ MeanNonZero(opx_frac))
                      /\ ~Compatible({Len(T), Len(p)})
                   THEN [raised |-> "ValueError", loaded |-> FALSE, dens |-> density_solids]
                   ELSE IF ~Compatible({Len(ol_frac), Len(opx_frac)}
                                       \cup IF MeanNonZero(ol_frac) \/ MeanNonZero(opx_frac)
                                            THEN {Len(T)} ELSE {})
                        THEN [raised |-> "ValueError", loaded |-> TRUE, dens |-> density_solids]
                        ELSE [raised |-> "none", loaded |-> TRUE, dens |-> MineralDensity]

calculate_density_solid ==
    /\ density_loaded' = DensityStep.loaded
    /\ density_solids' = DensityStep.dens
    /\ call' = Call("calculate_density_solid", <<>>, DensityStep.raised, 0)
    /\ UNCHANGED <<stateVecs, selections, cond_calculated, temperature_default,
                   water_fugacity_calculated, water_fugacity, bulk_cond, others>>

\* The fugacity is kept as the T and p it was computed from.
calculate_water_fugacity ==
    /\ IF water_fugacity_calculated
       THEN /\ call' = Call("calculate_water_fugacity", <<>>, "none", 0)
            /\ UNCHANGED <<water_fugacity, water_fugacity_calculated>>
       ELSE IF ~Compatible({Len(T), Len(p)})
            THEN /\ call' = Call("calculate_water_fugacity", <<>>, "ValueError", 0)
                 /\ UNCHANGED <<water_fugacity, water_fugacity_calculated>>
            ELSE /\ call' = Call("calculate_water_fugacity", <<>>, "none", 0)
                 /\ water_fugacity' = [set |-> TRUE, T |-> T, p |-> p]
                 /\ water_fugacity_calculated' = TRUE
    /\ UNCHANGED <<stateVecs, selections, cond_calculated, temperature_default,
                   density_loaded, density_solids, bulk_cond, others>>

\* The values f[1], ..., f[n] laid out as an array.
RECURSIVE Array(_, _)
Array(f, n) == IF n = 0 THEN <<>> ELSE Append(Array(f, n - 1), f[n])

\* The conductivity of the solid phases of one sample, in mS/m: it grows
\* with the temperature of that sample and depends on the selected model.
SolidCond(sel, t) == (sel + 1) * (t \div 100)

\* A number held as S/m, in mS/m.
SiemensPerMetre(x) == 1000 * x

\* set_parameter('bckgr_res', value): the attribute phase_mixing_function
\* reads for the solid method -1; nothing else assigns it.
set_bckgr_res(value) ==
    LET r == array_modifier(value, T)
    IN /\ call' = Call("set_parameter", <<value>>, r.raised, 0)
       /\ bckgr_res' = IF r.raised = "none" THEN r.arr ELSE bckgr_res
       /\ UNCHANGED <<engine, solubility, grid, twin, solid_phase_cond, apart>>

\* self.solid_phase_cond after phase_mixing_function: method -1 assigns
\* self.bckgr_res to bulk_cond as it is; a method without a branch leaves the
\* zeros bulk_cond starts from.
SolidPhaseCond ==
    IF phs_mix_method = -1
    THEN Array([i \in 1..Len(bckgr_res) |-> SiemensPerMetre(bckgr_res[i])], Len(bckgr_res))
    ELSE IF phs_mix_method >= 0 /\ phs_mix_method < NumMixLaws
         THEN Array([i \in 1..Len(T) |-> SolidCond(ol_cond_selection, T[i])], Len(T))
         ELSE Fill(Len(T), 0)

\* phase_mixing_function has a branch for the solid methods -1, 0, ..., 5; any
\* other method leaves bulk_cond at the zeros it starts from.
SelectsLaw(method) == method >= -1 /\ method < NumMixLaws

\* The vectors phase_mixing_function indexes sample by sample.
MixingVectorsFit ==
    IF solid_phase_method = 1
    THEN \A v \in {granite_frac, granulite_frac, granite_m} : Len(v) = Len(T)
    ELSE \A v \in {ol_frac, opx_frac, ol_m} : Len(v) = Len(T)

\* calculate_conductivity: the method string is checked first; the solid
\* density is computed only with melt or fluid present; cond_calculated is
\* set by the statement after phase_mixing_function.
calculate_conductivity(method) ==
    LET melt == MeanNonZero(melt_fluid_mass_frac)
        d == IF melt THEN DensityStep
             ELSE [raised |-> "none", loaded |-> density_loaded, dens |-> density_solids]
    IN IF method \notin {"array", "index"}
       THEN /\ call' = Call("calculate_conductivity", <<>>, "ValueError", 0)
            /\ UNCHANGED <<stateVecs, selections, flags, caches, others>>
       ELSE /\ density_loaded' = d.loaded
            /\ density_solids' = d.dens
            /\ IF d.raised # "none"
               THEN /\ call' = Call("calculate_conductivity", <<>>, d.raised, 0)
                    /\ UNCHANGED <<cond_calculated, bulk_cond, solid_phase_cond>>
               ELSE IF phs_mix_method # -1 /\ ~MixingVectorsFit
                    THEN /\ call' = Call("calculate_conductivity", <<>>, "IndexError", 0)
                         /\ UNCHANGED <<cond_calculated, bulk_cond, solid_phase_cond>>
                    ELSE IF phs_mix_method = -1 /\ bckgr_res = <<>>
                    THEN /\ call' = Call("calculate_conductivity", <<>>, "AttributeError", 0)
                         /\ UNCHANGED <<cond_calculated, bulk_cond, solid_phase_cond>>
                    ELSE /\ call' = Call("calculate_conductivity", <<>>, "none", 0)
                         /\ bulk_cond' = [set |-> TRUE, method |-> phs_mix_method,
                                          law |-> SelectsLaw(phs_mix_method)]
                         /\ solid_phase_cond' = SolidPhaseCond
                         /\ cond_calculated' = TRUE
            /\ UNCHANGED <<stateVecs, selections, temperature_default,
                           water_fugacity_calculated, water_fugacity,
                           solubility, grid, twin, bckgr_res, apart>>

----------------------------------------------------------------------------
(* Generalized Archie's Law: solid mixing method 0 of                      *)
(* phase_mixing_function, for the mineral mode with olivine and            *)
(* orthopyroxene, the two minerals whose fractions the model holds; every  *)
(* other mineral has the fraction 0 and adds nothing.  A power is held in  *)
(* thousandths, an exponent in tenths, a mixed conductivity in             *)
(* millionths of S/m.                                                      *)

\* Largest exponent the abundant-phase solve is followed to, in tenths.
MaxExponent == 200

\* The product of two numbers held in thousandths.
MulMilli(a, b) == (a * b + 500) \div 1000

\* f ** n for a whole n.
RECURSIVE ScaledPow(_, _)
ScaledPow(f, n) == IF n = 0 THEN 1000 ELSE MulMilli(f, ScaledPow(f, n - 1))

\* f ** 0.1: the largest r in lo..hi with r ** 10 <= f.
RECURSIVE TenthRoot(_, _, _)
TenthRoot(f, lo, hi) ==
    IF lo = hi THEN lo
    ELSE LET mid == (lo + hi + 1) \div 2
         IN IF ScaledPow(mid, 10) <= f THEN TenthRoot(f, mid, hi)
            ELSE TenthRoot(f, lo, mid - 1)

\* frac ** 0.1 for every frac of 0.001, ..., 1, in forty rows of twenty-five.
TenthRoots ==
    Array([row \in 1..40 |->
              Array([k \in 1..25 |-> TenthRoot(25 * (row - 1) + k, 0, 1000)], 25)], 40)

\* frac ** m of numpy: 0 ** 0 is 1.
Pow(frac, m) ==
    IF frac = 0 THEN (IF m = 0 THEN 1000 ELSE 0)
    ELSE MulMilli(ScaledPow(frac, m \div 10), 
                  ScaledPow(TenthRoots[((frac - 1) \div 25) + 1][((frac - 1) % 25) + 1],
                            m % 10))

\* np.log(target) / np.log(frac) to the tenth: the least exponent in lo..hi
\* that brings frac ** m down to target.
RECURSIVE LogRatio(_, _, _, _)
LogRatio(target, frac, lo, hi) ==
    IF lo = hi THEN lo
    ELSE LET mid == (lo + hi) \div 2
         IN IF Pow(frac, mid) <= target THEN LogRatio(target, frac, lo, mid)
            ELSE LogRatio(target, frac, mid + 1, hi)

\* calculate_mineral_conductivity for olivine and orthopyroxene: zeros when
\* the mean fraction of the mineral is zero.  The model follows the
\* selection of olivine; orthopyroxene stays with its first model.
MineralCond(frac, sel, i) == IF MeanNonZero(frac) THEN SolidCond(sel, T[i]) ELSE 0

\* One pass of the loop over the samples: the abundant mineral of sample i
\* (max(phase_list), and phase_list.index, which finds quartz, the head of
\* the list, when no fraction is above zero, and opx before ol) and
\* m_abundant, solved from the exponent the other mineral has at i.
AbundantPhase(i, ms) ==
    LET opxFirst == opx_frac[i] >= ol_frac[i]
        frac_abundant == IF opxFirst THEN opx_frac[i] ELSE ol_frac[i]
        rest == IF opxFirst THEN ol_frac[i] ELSE opx_frac[i]
        connectedness == Pow(rest, IF opxFirst THEN ms.ol[i] ELSE ms.opx[i])
    IN [phase |-> IF opx_frac[i] <= 0 /\ ol_frac[i] <= 0 THEN "quartz"
                  ELSE IF opxFirst THEN "opx" ELSE "ol",
        m_abundant |-> IF rest # 0
                       THEN LogRatio(1000 - connectedness, frac_abundant, 0, MaxExponent)
                       ELSE MinExponent]

\* pide.<phase>_m[idx_node] = m_abundant: idx_node is None under 'array',
\* which assigns every element of the vector, and sol_idx under 'index'.
AssignExponent(ms, a, idx_node) ==
    LET assign(m) == IF idx_node = <<>> THEN Fill(Len(m), a.m_abundant)
                     ELSE [m EXCEPT ![idx_node[1] + 1] = a.m_abundant]
    IN IF a.phase = "ol" THEN [ms EXCEPT !.ol = assign(ms.ol)]
       ELSE IF a.phase = "opx" THEN [ms EXCEPT !.opx = assign(ms.opx)]
       ELSE ms

\* The exponents after the passes i, ..., end_idx of the loop.
RECURSIVE ExponentsAfter(_, _, _, _)
ExponentsAfter(i, end_idx, ms, idx_node) ==
    IF i > end_idx THEN ms
    ELSE ExponentsAfter(i + 1, end_idx,
                        AssignExponent(ms, AbundantPhase(i, ms), idx_node), idx_node)

\* sum(cond * frac ** m) over the minerals, at sample j.
ArchieSum(j, ms) ==
    MineralCond(ol_frac, ol_cond_selection, j) * Pow(ol_frac[j], ms.ol[j])
        + MineralCond(opx_frac, 0, j) * Pow(opx_frac[j], ms.opx[j])

\* phase_mixing_function(method = 0) started with the exponents ms: the
\* exponents it leaves and self.bulk_cond.  Every pass assigns
\* self.bulk_cond[idx_node] from the vectors as they are then, so under
\* 'array' the last pass decides all of it.
ArchieMixing(ms, indexing_method, sol_idx) ==
    LET array == indexing_method = "array"
        after == IF array THEN ExponentsAfter(1, Len(T), ms, <<>>)
                 ELSE ExponentsAfter(sol_idx + 1, sol_idx + 1, ms, <<sol_idx>>)
    IN [ms |-> after,
        bulk_cond |-> [j \in 1..Len(T) |->
                          IF array \/ j = sol_idx + 1 THEN ArchieSum(j, after) ELSE 0]]

\* The vectors the loop indexes sample by sample.
ArchieVectorsFit == \A v \in {ol_frac, opx_frac, ol_m, opx_m} : Len(v) = Len(T)

\* calculate_conductivity(method, sol_idx = sol_idx) of a melt-free engine in
\* the mineral mode with the solid mixing method 0.
calculate_conductivity_archie(method, sol_idx) ==
    LET r == ArchieMixing([ol |-> ol_m, opx |-> opx_m], method, sol_idx)
        fits == ArchieVectorsFit /\ (method = "array" \/ sol_idx < Len(T))
    IN /\ phs_mix_method = 0 /\ solid_phase_method = 2
       /\ ~MeanNonZero(melt_fluid_mass_frac)
       /\ method \in {"array", "index"}
       /\ call' = Call("calculate_conductivity", <<method, sol_idx>>,
                       IF fits THEN "none" ELSE "IndexError", 0)
       /\ ol_m' = IF fits THEN r.ms.ol ELSE ol_m
       /\ opx_m' = IF fits THEN r.ms.opx ELSE opx_m
       /\ mixed_cond' = IF fits THEN r.bulk_cond ELSE Fill(Len(T), 0)
       /\ cond_calculated' = IF fits THEN TRUE ELSE cond_calculated
       /\ bulk_cond' = IF fits THEN [set |-> TRUE, method |-> 0, law |-> TRUE] ELSE bulk_cond
       /\ solid_phase_cond' = IF fits THEN SolidPhaseCond ELSE solid_phase_cond
       /\ UNCHANGED <<T, p, depth, ol_frac, opx_frac, granite_frac, granulite_frac,
                      ol_water, bulk_water, ol_xfe, param, melt_fluid_mass_frac,
                      granite_m, melt_fluid_m, selections, temperature_default,
                      density_loaded, water_fugacity_calculated, density_solids,
                      water_fugacity, solubility, grid, twin, bckgr_res, calib, mare,
                      single_cond, batch>>

----------------------------------------------------------------------------
(* Mantle water solubility: olivine and orthopyroxene                      *)

\* Deepest chain of nested calculate_mineral_water_solubility calls the model
\* follows; a deeper chain ends as Python's RecursionError.
MaxDepth == 4

\* mineral_sol_name[10] and mineral_sol_name[4], the model names of ol_sol.csv
\* and opx_sol.csv: published functions first, then the model derived from
\* the other mineral.
OlSolNames == <<"Ferot2012_OlSol", "Gaetani2014_OlSol", "FromOpx">>
OpxSolNames == <<"Direct_OpxSol", "FromOl">>
\* mineral_sol_name[7], the model names of garnet_sol.csv.
GarnetSolNames == <<"Direct_GarnetSol", "FromOl", "FromOpx">>

\* A Python list index: 0-based, inside the table.
InList(i, names) == i >= 0 /\ i < Len(names)

\* set_mantle_water_solubility without the test for the mutual reference.
set_mantle_water_solubility_unguarded(ol, opx, garnet) ==
    /\ ol_sol_choice' = ol
    /\ opx_sol_choice' = opx
    /\ garnet_sol_choice' = garnet
    /\ call' = Call("set_mantle_water_solubility",
                    <<Scalar(ol), Scalar(opx), Scalar(garnet)>>,
                    IF ~InList(ol, OlSolNames) THEN "IndexError"
                    ELSE IF OlSolNames[ol + 1] = "FromOpx" /\ ~InList(opx, OpxSolNames)
                         THEN "IndexError" ELSE "none", 0)
    /\ UNCHANGED <<engine, grid, twin, bypass, max_ol_water, max_opx_water, apart>>

\* The choices are stored, then the names they select are looked up: olivine
\* 'FromOpx' with opx 'FromOl' puts olivine back to 0 and raises ValueError.
set_mantle_water_solubility(ol, opx, garnet) ==
    LET olOut == ~InList(ol, OlSolNames)
        fromOpx == ~olOut /\ OlSolNames[ol + 1] = "FromOpx"
        opxOut == fromOpx /\ ~InList(opx, OpxSolNames)
        mutual == fromOpx /\ ~opxOut /\ OpxSolNames[opx + 1] = "FromOl"
    IN /\ ol_sol_choice' = IF mutual THEN 0 ELSE ol
       /\ opx_sol_choice' = opx
       /\ garnet_sol_choice' = garnet
       /\ call' = Call("set_mantle_water_solubility",
                       <<Scalar(ol), Scalar(opx), Scalar(garnet)>>,
                       IF olOut \/ opxOut THEN "IndexError"
                       ELSE IF mutual THEN "ValueError" ELSE "none", 0)
       /\ UNCHANGED <<engine, grid, twin, bypass, max_ol_water, max_opx_water, apart>>

\* calculate_mineral_water_solubility for 'ol' (min_idx 10), 'opx'
\* (min_idx 4) and 'garnet' (min_idx 7), with rerun_sol: what the call raises and which of
\* max_ol_water / max_opx_water exist afterwards.  mo and mx tell whether the
\* two attributes exist, level counts the nested calls, direct_ok tells
\* whether the published olivine function returns (it raises AttributeError
\* without ti_ol).  The opx branch never binds water_fug and o2_fug, so a
\* published opx function is never reached: its arguments raise NameError.
\* Garnet 'FromOl' without max_ol_water calls rerun_sol for 'garnet', its
\* own calculation; a chain of nested calls that does not end is cut by the
\* interpreter with RecursionError.
RECURSIVE SolubilityRun(_, _, _, _, _)
SolubilityRun(min_idx, mo, mx, level, direct_ok) ==
    LET here == [raised |-> "none", ol |-> mo, opx |-> mx]
    IN IF level > MaxDepth
       THEN [here EXCEPT !.raised = "RecursionError"]
       ELSE IF min_idx = 10
       THEN IF ~InList(ol_sol_choice, OlSolNames)
            THEN [here EXCEPT !.raised = "IndexError"]
            ELSE IF OlSolNames[ol_sol_choice + 1] = "FromOpx"
                 THEN IF mx
                      THEN here
                      ELSE LET r == SolubilityRun(4, mo, mx, level + 1, direct_ok)
                           IN IF r.raised # "none"
                              THEN r
                              ELSE [raised |-> "none", ol |-> TRUE, opx |-> TRUE]
                 ELSE IF direct_ok
                      THEN [here EXCEPT !.ol = TRUE]
                      ELSE [here EXCEPT !.raised = "AttributeError"]
       ELSE IF min_idx = 4
       THEN IF ~InList(opx_sol_choice, OpxSolNames)
            THEN [here EXCEPT !.raised = "IndexError"]
            ELSE IF OpxSolNames[opx_sol_choice + 1] = "FromOl"
                 THEN IF mo
                      THEN here
                      ELSE LET r == SolubilityRun(10, mo, mx, level + 1, direct_ok)
                           IN IF r.raised # "none"
                              THEN r
                              ELSE [raised |-> "none", ol |-> TRUE, opx |-> TRUE]
                 ELSE [here EXCEPT !.raised = "NameError"]
       ELSE IF ~InList(garnet_sol_choice, GarnetSolNames)
            THEN [here EXCEPT !.raised = "IndexError"]
            ELSE IF GarnetSolNames[garnet_sol_choice + 1] = "FromOl"
                 THEN IF mo
                      THEN here
                      ELSE LET r == SolubilityRun(7, mo, mx, level + 1, direct_ok)
                           IN IF r.raised # "none"
                              THEN r
                              ELSE [here EXCEPT !.ol = TRUE]
                 ELSE IF GarnetSolNames[garnet_sol_choice + 1] = "FromOpx"
                 THEN IF mx
                      THEN here
                      ELSE LET r == SolubilityRun(4, mo, mx, level + 1, direct_ok)
                           IN IF r.raised # "none"
                              THEN r
                              ELSE [r EXCEPT !.opx = TRUE]
                 ELSE here

calculate_mineral_water_solubility(min_idx, direct_ok) ==
    LET r == SolubilityRun(min_idx, max_ol_water, max_opx_water, 1, direct_ok)
    IN /\ max_ol_water' = r.ol
       /\ max_opx_water' = r.opx
       /\ call' = Call("calculate_mineral_water_solubility",
                       <<Scalar(min_idx), Flag(direct_ok)>>, r.raised, 0)
       /\ UNCHANGED <<engine, grid, twin, bypass, ol_sol_choice, opx_sol_choice,
                      garnet_sol_choice, apart>>

----------------------------------------------------------------------------
(* Model (src/pide/model.py): materials laid on a labelled grid, or on a   *)
(* depth column, and the calculations run per material.                    *)
(*                                                                         *)
(* The grid is flattened: a cell is a position 1..NumCells, and the pair   *)
(* of row and column index arrays of a material is the ascending sequence  *)
(* of its cells (both arrays are always sliced at the same places).        *)
(* Conductivities are positive integers, resistivities in ohm m, melt      *)
(* fractions in thousandths, plastic strain in hundredths.                 *)

\* Cells of the grid, and samples of the depth column.
NumCells == 6

\* os.cpu_count() of the machine.
CpuCount == 2

\* np.nan, the mark of a cell without a value.
NaN == -1

\* low_deformation_threshold and high_deformation_threshold, the defaults.
LowDeformation == 1
HighDeformation == 10000

\* A Material: the attributes run_model and Model read.
Material(index, ctype, res, sel, inc, melt, mcond, top, bottom) ==
    [material_index |-> index, calculation_type |-> ctype,
     resistivity_medium |-> res, el_cond_selection |-> sel,
     melt_fluid_incorporation_method |-> inc, melt_fluid_frac |-> melt,
     melt_fluid_cond |-> mcond, top |-> top, bottom |-> bottom]

\* arr[idx], idx an array of indexes.
Gather(arr, idx) == Array([k \in 1..Len(idx) |-> arr[idx[k]]], Len(idx))

\* 1.0 / resistivity, in mS/m.
Reciprocal(res) == 1000 \div res

\* Tubes model: (1/3) phi melt_cond + (1 - phi) bulk.
TubesModel(bulk, mcond, phi) == (phi * mcond) \div 3000 + ((1000 - phi) * bulk) \div 1000

\* The melt fractions run_model hands to the engine for an index list.
MeltOf(index_list, material) ==
    IF material.melt_fluid_incorporation_method = "value"
    THEN Fill(Len(index_list), material.melt_fluid_frac)
    ELSE IF material.melt_fluid_incorporation_method = "field"
         THEN Gather(melt_frac, index_list)
         ELSE Fill(Len(index_list), 0)

\* A run_model in which the melt fraction of every sample is the mean of the
\* index list it is run on.
run_model_mean_melt(index_list, material) ==
    LET n == Len(index_list)
        t == Gather(model_T, index_list)
        melt == MeltOf(index_list, material)
        solid == Array([k \in 1..n |-> SolidCond(material.el_cond_selection, t[k])], n)
        mean == Sum(melt) \div n
    IN IF MeanNonZero(melt)
       THEN Array([k \in 1..n |-> TubesModel(solid[k], material.melt_fluid_cond, mean)], n)
       ELSE solid

\* run_model: the engine is given T, p and the melt of the index list and
\* the material's settings, then calculate_conductivity('array') runs.  The
\* melt is mixed in for every sample of the list when the mean melt fraction
\* of the list is not zero, and for none otherwise.
run_model(index_list, material) ==
    LET n == Len(index_list)
        t == Gather(model_T, index_list)
        melt == MeltOf(index_list, material)
        solid == Array([k \in 1..n |-> SolidCond(material.el_cond_selection, t[k])], n)
    IN IF MeanNonZero(melt)
       THEN Array([k \in 1..n |-> TubesModel(solid[k], material.melt_fluid_cond, melt[k])], n)
       ELSE solid

\* return_material_bool: the cells labelled with a material, in grid order.
RECURSIVE CellsFrom(_, _)
CellsFrom(index, i) ==
    IF i > Len(material_array) THEN <<>>
    ELSE IF material_array[i] = index
         THEN <<i>> \o CellsFrom(index, i + 1)
         ELSE CellsFrom(index, i + 1)

return_material_bool(index) == CellsFrom(index, 1)

\* Python's idx[a:b], a and b counted from 0, cut at the end of idx.
Slice(idx, a, b) == SubSeq(idx, a + 1, IF b < Len(idx) THEN b ELSE Len(idx))

\* The slicing without the slice that starts at size_arrays * num_cpu.
SliceForWorkers_no_rest(material_idx, num_cpu) ==
    LET size_arrays == Len(material_idx) \div num_cpu
    IN Array([j \in 1..num_cpu |->
                 Slice(material_idx, (j - 1) * size_arrays, j * size_arrays)], num_cpu)

\* for idx in range(0, len, size_arrays): one slice of size_arrays indexes
\* per step, and whatever follows size_arrays * num_cpu as one more slice.
SliceForWorkers(material_idx, num_cpu) ==
    LET len == Len(material_idx)
        size_arrays == len \div num_cpu
        steps == (len + size_arrays - 1) \div size_arrays
    IN Array([j \in 1..steps |->
                 LET idx == (j - 1) * size_arrays
                 IN IF idx >= size_arrays * num_cpu
                    THEN Slice(material_idx, idx, len)
                    ELSE Slice(material_idx, idx, idx + size_arrays)], steps)

\* cond[sliced_material_idx[idx]] = c[idx], for each slice in turn: a cell
\* holds the value of the last slice that names it.
WriteBack(cond, slices, c) ==
    Array([i \in 1..Len(cond) |->
              LET hits == {h \in (1..Len(slices)) \X (1..Len(cond)) :
                              h[2] <= Len(slices[h[1]]) /\ slices[h[1]][h[2]] = i}
              IN IF hits = {}
                 THEN cond[i]
                 ELSE LET last == CHOOSE h \in hits : \A g \in hits :
                                      g[1] < h[1] \/ (g[1] = h[1] /\ g[2] <= h[2])
                      IN c[last[1]][last[2]]], Len(cond))

\* One pass of the loop over the materials of a list.  st carries cond,
\* num_cpu (the loop lowers it to 1 for good) and the slices made so far.
MaterialStep(st, material) ==
    LET material_idx == return_material_bool(material.material_index)
        byValue == material.calculation_type = "value"
        n == IF byValue THEN 1 ELSE st.num_cpu
        parallel == n > 1 /\ Len(material_idx) > n * n
        slices == IF parallel THEN SliceForWorkers(material_idx, n)
                  ELSE <<material_idx>>
        c == Array([j \in 1..Len(slices) |->
                       IF byValue
                       THEN Fill(Len(slices[j]), Reciprocal(material.resistivity_medium))
                       ELSE run_model(slices[j], material)], Len(slices))
    IN [cond |-> WriteBack(st.cond, slices, c),
        num_cpu |-> IF parallel THEN n ELSE 1,
        slices |-> Append(st.slices,
                          [material_index |-> material.material_index,
                           num_cpu |-> IF parallel THEN n ELSE 1,
                           material_idx |-> material_idx,
                           sliced |-> slices])]

\* cond[cond == 0.0] = np.nan
ZeroToNaN(cond) ==
    Array([i \in 1..Len(cond) |-> IF cond[i] = 0 THEN NaN ELSE cond[i]], Len(cond))

RECURSIVE RunList(_, _, _)
RunList(st, list, i) ==
    IF i > Len(list)
    THEN [st EXCEPT !.cond = ZeroToNaN(st.cond)]
    ELSE RunList(MaterialStep(st, list[i]), list, i + 1)

\* The lists calculate_conductivity runs for a type; <<>> stands for None.
ListHolder(type) ==
    IF type = "background" THEN <<material_list>>
    ELSE IF type = "maximum" THEN <<material_list_2>>
    ELSE IF material_list_2 # <<>> THEN <<material_list, material_list_2>>
    ELSE <<material_list>>

\* Model.calculate_conductivity up to its return: cond is made once and
\* every list writes into it, and cond_list holds that one array once per
\* list.
ModelRun(type, num_cpu) ==
    LET holder == ListHolder(type)
        st0 == [cond |-> Fill(Len(model_T), 0), num_cpu |-> num_cpu, slices |-> <<>>]
        st1 == RunList(st0, holder[1], 1)
        st2 == IF Len(holder) = 2 THEN RunList(st1, holder[2], 1) ELSE st1
        none == [raised |-> "none", cond_list |-> <<>>, slices |-> <<>>]
    IN IF num_cpu > 1 /\ num_cpu > CpuCount
       THEN [none EXCEPT !.raised = "ValueError"]
       ELSE IF type = "maximum" /\ material_list_2 = <<>>
       THEN [none EXCEPT !.raised = "TypeError"]
       ELSE [raised |-> IF type = "both" /\ Len(holder) = 1 THEN "IndexError" ELSE "none",
             cond_list |-> [l \in 1..Len(holder) |-> st2.cond],
             slices |-> st2.slices]

\* Model(material_list, material_array, T, P, melt = ..., p_strain = ...,
\* material_list_2 = ...) for a grid.
Model_grid(labels, temps, melt, strain, list, list_2) ==
    /\ model_kind = "none"
    /\ model_kind' = "grid"
    /\ material_array' = labels
    /\ model_T' = temps
    /\ melt_frac' = melt
    /\ p_strain' = strain
    /\ material_list' = list
    /\ material_list_2' = list_2
    /\ call' = Call("Model", <<NdArray(labels), NdArray(melt)>>, "none", 0)
    /\ UNCHANGED <<model_depth, background_cond, maximum_cond,
                   sliced_material_idx, ret, engine, solubility, twin, bypass, apart>>

Model_calculate_conductivity(type, num_cpu) ==
    LET r == ModelRun(type, num_cpu)
        n == Len(r.cond_list)
    IN /\ model_kind = "grid"
       /\ background_cond' = IF type # "maximum" /\ n >= 1
                             THEN r.cond_list[1] ELSE background_cond
       /\ maximum_cond' = IF type = "maximum" /\ n >= 1 THEN r.cond_list[1]
                          ELSE IF type = "both" /\ n = 2 THEN r.cond_list[2]
                          ELSE maximum_cond
       /\ sliced_material_idx' = r.slices
       /\ ret' = IF r.raised = "none" THEN r.cond_list ELSE <<>>
       /\ call' = Call("Model.calculate_conductivity",
                       <<[kind |-> type, x |-> num_cpu, xs |-> <<>>]>>, r.raised, 0)
       /\ UNCHANGED <<model_kind, material_array, model_T, melt_frac, p_strain,
                      material_list, material_list_2, model_depth,
                      engine, solubility, twin, bypass, apart>>

\* run_deform2cond for one cell: the background value up to the low
\* threshold, the maximum value from the high threshold on.  The strains
\* the model hands in lie outside the thresholds, where no curve is fitted.
run_deform2cond(i) ==
    IF p_strain[i] <= LowDeformation THEN background_cond[i] ELSE maximum_cond[i]

\* Model.calculate_deformation_related_conductivity(num_cpu = ...).  A
\* missing background_cond or maximum_cond is an AttributeError, which the
\* 'except NameError' around the two reads does not catch.  multiprocessing
\* is imported for num_cpu > 1 only and used for every material.
DeformRun(num_cpu) ==
    LET zeros == Fill(Len(model_T), 0)
        cells == {i \in 1..Len(model_T) :
                     \E m \in 1..Len(material_list) :
                         material_list[m].material_index = material_array[i]}
        deform_cond == [i \in 1..Len(model_T) |->
                           IF i \in cells THEN run_deform2cond(i) ELSE 0]
        decay == [i \in 1..Len(model_T) |-> IF i \in cells THEN NaN ELSE 0]
        none == [raised |-> "none", arrays |-> <<>>]
    IN IF background_cond = <<>> \/ maximum_cond = <<>>
       THEN [none EXCEPT !.raised = "AttributeError"]
       ELSE IF num_cpu > 1 /\ num_cpu > CpuCount
       THEN [none EXCEPT !.raised = "ValueError"]
       ELSE IF material_list = <<>>
       THEN [none EXCEPT !.arrays = <<ZeroToNaN(zeros), ZeroToNaN(zeros),
                                      ZeroToNaN(zeros), ZeroToNaN(zeros)>>]
       ELSE IF num_cpu <= 1
       THEN [none EXCEPT !.raised = "UnboundLocalError"]
       ELSE IF p_strain = <<>>
       THEN [none EXCEPT !.raised = "TypeError"]
       ELSE [none EXCEPT !.arrays = <<ZeroToNaN(deform_cond), ZeroToNaN(decay),
                                      ZeroToNaN(decay), ZeroToNaN(decay)>>]

Model_calculate_deformation_related_conductivity(num_cpu) ==
    LET r == DeformRun(num_cpu)
    IN /\ model_kind = "grid"
       /\ ret' = r.arrays
       /\ call' = Call("Model.calculate_deformation_related_conductivity",
                       <<Scalar(num_cpu)>>, r.raised, 0)
       /\ UNCHANGED <<model_kind, material_array, model_T, melt_frac, p_strain,
                      material_list, material_list_2, model_depth,
                      background_cond, maximum_cond, sliced_material_idx,
                      engine, solubility, twin, bypass, apart>>

\* Model(material_list, T = ..., P = ..., depth = ...) for a depth column.
Model_column(depths, temps, list) ==
    /\ model_kind = "none"
    /\ model_kind' = "column"
    /\ model_depth' = depths
    /\ model_T' = temps
    /\ material_list' = list
    /\ call' = Call("Model", <<NdArray(depths)>>, "none", 0)
    /\ UNCHANGED <<material_array, melt_frac, p_strain, material_list_2,
                   background_cond, maximum_cond, sliced_material_idx, ret,
                   engine, solubility, twin, bypass, apart>>

\* sort_through_external_list(tops, material_list): the materials in the
\* order of their tops, materials of equal top in their old order.
RECURSIVE InsertByTop(_, _)
InsertByTop(sorted, m) ==
    IF sorted = <<>> THEN <<m>>
    ELSE IF m.top < Head(sorted).top
         THEN <<m>> \o sorted
         ELSE <<Head(sorted)>> \o InsertByTop(Tail(sorted), m)

RECURSIVE sort_through_external_list(_)
sort_through_external_list(list) ==
    IF list = <<>> THEN <<>>
    ELSE InsertByTop(sort_through_external_list(SubSeq(list, 1, Len(list) - 1)),
                     list[Len(list)])

Abs(x) == IF x < 0 THEN -x ELSE x

\* (np.abs(depth - value)).argmin(): the first of the nearest samples,
\* counted from 0.
ArgMinNear(depths, value) ==
    (CHOOSE i \in 1..Len(depths) :
        /\ \A j \in 1..Len(depths) : Abs(depths[i] - value) <= Abs(depths[j] - value)
        /\ \A j \in 1..(i - 1) : Abs(depths[j] - value) > Abs(depths[i] - value)) - 1

\* The first layer where top < bottom of the layer before, or 0.
FirstOverlap(sorted) ==
    LET bad == {i \in 2..Len(sorted) : sorted[i].top < sorted[i - 1].bottom}
    IN IF bad = {} THEN 0 ELSE CHOOSE i \in bad : \A j \in bad : i <= j

\* layer_end_list: the sample nearest to the bottom of each layer but the
\* last, then len(depth).
LayerEndList(sorted, depths) ==
    [i \in 1..Len(sorted) |->
        IF i < Len(sorted) THEN ArgMinNear(depths, sorted[i].bottom)
        ELSE Len(depths)]

\* list(range(a, b)), as cells counted from 1.
Range(a, b) == [k \in 1..(IF b > a THEN b - a ELSE 0) |-> a + k]

\* Layers that all start at the first sample.
LayerSlices_from_zero(ends) == [i \in 1..Len(ends) |-> Range(0, ends[i])]

\* sliced_material_idx: range(0, end_1), range(end_1, end_2), ...
LayerSlices(ends) ==
    [i \in 1..Len(ends) |-> Range(IF i = 1 THEN 0 ELSE ends[i - 1], ends[i])]

\* Model.calculate_geothermal_block(type = 'conductivity').  The list is put
\* in order before the overlap test, and stays in order when the test raises.
Model_calculate_geothermal_block ==
    LET sorted == sort_through_external_list(material_list)
        overlap == FirstOverlap(sorted)
        slices == LayerSlices(LayerEndList(sorted, model_depth))
        c == Array([j \in 1..Len(slices) |-> run_model(slices[j], sorted[j])],
                   Len(slices))
    IN /\ model_kind = "column"
       /\ melt_frac' = IF melt_frac = <<>> THEN Fill(Len(model_depth), 0) ELSE melt_frac
       /\ material_list' = sorted
       /\ IF overlap # 0
          THEN /\ call' = Call("Model.calculate_geothermal_block", <<Scalar(overlap - 1)>>,
                               "ValueError", 0)
               /\ UNCHANGED <<sliced_material_idx, ret>>
          ELSE /\ call' = Call("Model.calculate_geothermal_block", <<>>, "none", 0)
               /\ sliced_material_idx' = slices
               /\ ret' = <<WriteBack(Fill(Len(model_depth), 0), slices, c)>>
       /\ UNCHANGED <<model_kind, material_array, model_T, p_strain,
                      material_list_2, model_depth, background_cond,
                      maximum_cond, engine, solubility, twin, bypass, apart>>

----------------------------------------------------------------------------
(* A second pide instance in the same process.  T, p, the fractions and    *)
(* the flags are attributes of an instance; the water contents, xfe, the   *)
(* exponents, the selections and the methods are attributes of the class   *)
(* pide, which every instance reads and assigns.                           *)

\* pide(): form_object runs every setter with its defaults, on the new
\* instance's T = [900].
pide_other ==
    /\ other_formed' = TRUE
    /\ other_T' = <<DefaultT>>
    /\ ol_water' = <<0>>
    /\ ol_xfe' = <<DefaultXfe>>
    /\ ol_m' = <<DefaultSolidM>> /\ granite_m' = <<DefaultSolidM>>
    /\ opx_m' = <<DefaultSolidM>>
    /\ melt_fluid_m' = <<DefaultMeltM>>
    /\ ol_cond_selection' = 0 /\ granite_cond_selection' = 0
    /\ melt_cond_selection' = 0 /\ fluid_cond_selection' = 0
    /\ phs_mix_method' = 0 /\ phs_melt_mix_method' = 0
    /\ fluid_or_melt_method' = 1
    /\ solid_phase_method' = 2
    /\ ol_calib' = DefaultOlCalib
    /\ px_gt_calib' = DefaultCalib /\ feldspar_calib' = DefaultCalib
    /\ call' = Call("pide", <<>>, "none", 0)
    /\ UNCHANGED <<T, p, depth, ol_frac, opx_frac, granite_frac, granulite_frac,
                   bulk_water, param, melt_fluid_mass_frac, flags, caches,
                   solubility, grid, bypass, CORR_Factor, mare, single_cond, mixed_cond,
                   batch>>

\* set_temperature on the second instance.
other_set_temperature(Tin) ==
    /\ other_formed
    /\ other_T' = Tin.xs
    /\ call' = Call("other.set_temperature", <<Tin>>,
                    IF AnyBelow(Tin.xs, 0) THEN "ValueError" ELSE "none", 0)
    /\ UNCHANGED <<engine, solubility, grid, bypass, other_formed, apart>>

\* set_mineral_water on the second instance: pide.ol_water is made as long
\* as the second instance's T.
other_set_mineral_water(ol) ==
    LET r == array_modifier(ol, other_T)
    IN /\ other_formed
       /\ ol_water' = IF r.raised = "none" THEN r.arr ELSE ol_water
       /\ call' = Call("other.set_mineral_water", <<ol>>,
                       IF r.raised # "none" THEN r.raised
                       ELSE IF AnyBelow(r.arr, 0) THEN "ValueError" ELSE "none", 0)
       /\ UNCHANGED <<T, p, depth, ol_frac, opx_frac, granite_frac, granulite_frac,
                      bulk_water, ol_xfe, param, melt_fluid_mass_frac,
                      ol_m, granite_m, melt_fluid_m, selections, flags, caches, others>>

\* set_xfe_mineral on the second instance.
other_set_xfe_mineral(ol) ==
    LET r == array_modifier(ol, other_T)
    IN /\ other_formed
       /\ ol_xfe' = IF r.raised = "none" THEN r.arr ELSE ol_xfe
       /\ call' = Call("other.set_xfe_mineral", <<ol>>, r.raised, 0)
       /\ UNCHANGED <<T, p, depth, ol_frac, opx_frac, granite_frac, granulite_frac,
                      ol_water, bulk_water, param, melt_fluid_mass_frac,
                      ol_m, granite_m, melt_fluid_m, selections, flags, caches, others>>

\* set_phase_interconnectivities on the second instance.
other_set_phase_interconnectivities(ol, granite) ==
    LET r1 == array_modifier(ol, other_T)
        r2 == array_modifier(granite, other_T)
    IN /\ other_formed
       /\ ol_m' = IF r1.raised = "none" THEN r1.arr ELSE ol_m
       /\ opx_m' = IF r1.raised = "none" THEN Fill(Len(other_T), DefaultSolidM) ELSE opx_m
       /\ granite_m' = IF r1.raised = "none" /\ r2.raised = "none" THEN r2.arr ELSE granite_m
       /\ call' = Call("other.set_phase_interconnectivities", <<ol, granite>>,
                       IF r1.raised # "none" THEN r1.raised
                       ELSE IF r2.raised # "none" THEN r2.raised
                       ELSE IF AnyBelow(r1.arr, MinExponent) \/ AnyBelow(r2.arr, MinExponent)
                            THEN "ValueError" ELSE "none", 0)
       /\ UNCHANGED <<T, p, depth, ol_frac, opx_frac, granite_frac, granulite_frac,
                      ol_water, bulk_water, ol_xfe, param, melt_fluid_mass_frac,
                      melt_fluid_m, selections, flags, caches, aside>>

----------------------------------------------------------------------------
(* Water calibration: set_watercalib and Water_correction.                  *)
(* A calibration code is the integer the caller gives (the target) or the  *)
(* integer of the w_calib column of the active model row (the source).  A  *)
(* correction factor is named by the attribute that holds it; "1.0" is the *)
(* literal 1.0.                                                             *)

Olivine == 21
PyroxenesGarnet == {15, 16, 18}
Feldspars == {12, 14}

\* The correction factors read_params of class pide (and of class SEL)
\* assigns: it reads params.csv and materials.json and no water_calib.csv.
pide_factors == {}

\* The correction factors read_params of the GUI class SEEL assigns.
SEEL_factors == {"pat2with", "bell2with", "pat2bell", "with2bell", "bell2path",
                 "with2pat", "pat2bell95", "bell952pat", "john2mosen", "mosen2john"}

Returned(value) == [raised |-> "none", value |-> value]

\* self.<name>: the attribute if the instance has it.
Factor(have, name) ==
    IF name \in have THEN Returned(name)
    ELSE [raised |-> "AttributeError", value |-> name]

\* The olivine branch: target 0 Withers, 1 Bell, 2 Paterson; source 0
\* Paterson, 1 Bell, anything else Withers.
OlivineFactor(have, calib_object, calib_object_2) ==
    IF calib_object_2 = 0
    THEN IF calib_object = 0 THEN Factor(have, "pat2with")
         ELSE IF calib_object = 1 THEN Factor(have, "bell2with")
         ELSE Returned("1.0")
    ELSE IF calib_object_2 = 1
    THEN IF calib_object = 0 THEN Factor(have, "pat2bell")
         ELSE IF calib_object = 1 THEN Returned("1.0")
         ELSE Factor(have, "with2bell")
    ELSE IF calib_object_2 = 2
    THEN IF calib_object = 0 THEN Returned("1.0")
         ELSE IF calib_object = 1 THEN Factor(have, "bell2path")
         ELSE Factor(have, "with2pat")
    ELSE Returned("1.0")

\* The opx, cpx and garnet branch.
PyroxeneGarnetFactor(have, calib_object, calib_object_2) ==
    IF calib_object_2 = 0
    THEN IF calib_object = 0 THEN Factor(have, "pat2bell95") ELSE Returned("1.0")
    ELSE IF calib_object_2 = 1
    THEN IF calib_object = 1 THEN Factor(have, "bell952pat") ELSE Returned("1.0")
    ELSE Returned("1.0")

\* The plagioclase and K-feldspar branch of pide and SEL.
FeldsparFactor(have, calib_object, calib_object_2) ==
    IF calib_object_2 = 0
    THEN IF calib_object = 0 THEN Factor(have, "john2mosen") ELSE Returned("1.0")
    ELSE IF calib_object_2 = 1
    THEN IF calib_object = 1 THEN Factor(have, "mosen2john") ELSE Returned("1.0")
    ELSE Returned("1.0")

\* The same branch in the GUI class: under target 1 the test repeats
\* calib_object_2 == 1, and the last else is the comparison CORR_Factor == 1.0
\* of a local that was never assigned.
SEEL_FeldsparFactor(have, calib_object, calib_object_2) ==
    IF calib_object_2 = 0
    THEN IF calib_object = 0 THEN Factor(have, "john2mosen") ELSE Returned("1.0")
    ELSE IF calib_object_2 = 1
    THEN Factor(have, "mosen2john")
    ELSE [raised |-> "UnboundLocalError", value |-> "CORR_Factor"]

\* Water_correction of an engine whose instance has the factors `have` and
\* whose feldspar branch is that of the GUI class or not.
CorrFactor(have, gui, min_idx, calib_object, ol, px_gt, feldspar) ==
    IF min_idx = Olivine THEN OlivineFactor(have, calib_object, ol)
    ELSE IF min_idx \in PyroxenesGarnet THEN PyroxeneGarnetFactor(have, calib_object, px_gt)
    ELSE IF min_idx \in Feldspars
    THEN IF gui THEN SEEL_FeldsparFactor(have, calib_object, feldspar)
         ELSE FeldsparFactor(have, calib_object, feldspar)
    ELSE Returned("1.0")

\* set_watercalib(ol, px_gt, feldspar): the three codes are stored, then
\* checked.
set_watercalib(ol, px_gt, feldspar) ==
    /\ ol_calib' = ol
    /\ px_gt_calib' = px_gt
    /\ feldspar_calib' = feldspar
    /\ call' = Call("set_watercalib", <<ol, px_gt, feldspar>>,
                    IF ol < 0 \/ ol > MaxOlCalib \/ px_gt < 0 \/ px_gt > MaxCalib
                       \/ feldspar < 0 \/ feldspar > MaxCalib
                    THEN "ValueError" ELSE "none", 0)
    /\ UNCHANGED <<engine, solubility, grid, twin, bypass, CORR_Factor, mare, extra>>

\* pide.Water_correction(min_idx), the active row of the mineral having
\* w_calib = calib_object.
Water_correction(min_idx, calib_object) ==
    LET r == CorrFactor(pide_factors, FALSE, min_idx, calib_object,
                        ol_calib, px_gt_calib, feldspar_calib)
    IN /\ CORR_Factor' = IF r.raised = "none" THEN r.value ELSE CORR_Factor
       /\ call' = Call("Water_correction",
                       <<min_idx, calib_object, ol_calib, px_gt_calib, feldspar_calib>>,
                       r.raised, 0)
       /\ UNCHANGED <<engine, solubility, grid, twin, bypass,
                      ol_calib, px_gt_calib, feldspar_calib, mare, extra>>

\* SEEL.Water_correction(min_idx) of the GUI, whose calibration codes are
\* attributes of the class SEEL the radio buttons assign: calib_object_2 is
\* the code of the mineral's family, the other families being at their
\* defaults.
SEEL_Water_correction(min_idx, calib_object, calib_object_2) ==
    LET ol == IF min_idx = Olivine THEN calib_object_2 ELSE DefaultOlCalib
        px_gt == IF min_idx \in PyroxenesGarnet THEN calib_object_2 ELSE DefaultCalib
        feldspar == IF min_idx \in Feldspars THEN calib_object_2 ELSE DefaultCalib
        r == CorrFactor(SEEL_factors, TRUE, min_idx, calib_object, ol, px_gt, feldspar)
    IN /\ CORR_Factor' = IF r.raised = "none" THEN r.value ELSE CORR_Factor
       /\ call' = Call("SEEL.Water_correction",
                       <<min_idx, calib_object, ol, px_gt, feldspar>>, r.raised, 0)
       /\ UNCHANGED <<engine, solubility, grid, twin, bypass,
                      ol_calib, px_gt_calib, feldspar_calib, mare, extra>>

----------------------------------------------------------------------------
(* calculate_arrhenian_single.  sigma is log10 of the pre-exponential term *)
(* in S/m, E an enthalpy in J/mol, T in K; a conductivity is held in       *)
(* millionths of S/m.                                                      *)

\* self.R, the gas constant, in mJ/(K mol).
R == 8314

RECURSIVE IntPow(_, _)
IntPow(x, n) == IF n = 0 THEN 1 ELSE x * IntPow(x, n - 1)

\* x ** (1.0 / 3.0), to the integer below.
Cbrt(x) == CHOOSE c \in 0..x : c * c * c <= x /\ (c + 1) * (c + 1) * (c + 1) > x

\* np.exp(-n) in millionths, for a whole n.
ExpNeg(n) ==
    LET table == <<1000000, 367879, 135335, 49787, 18316, 6738, 2479, 912,
                   335, 123, 45, 17, 6, 2, 1>>
    IN IF n + 1 <= Len(table) THEN table[n + 1] ELSE 0

\* (10.0**sigma) * (water**r) * np.exp(-(E + (alpha * water)**(1.0/3.0)) / (self.R * T))
Arrhenian(Tk, sigma, E, r, alpha, water) ==
    IntPow(10, sigma) * IntPow(water, r)
        * ExpNeg((1000 * (E + Cbrt(alpha * water))) \div (R * Tk))

\* The test of the two terms joined by "or".
calculate_arrhenian_single_either(Tk, sigma, E, r, alpha, water) ==
    IF sigma = 0 \/ E = 0 THEN 0 ELSE Arrhenian(Tk, sigma, E, r, alpha, water)

\* cond is 0.0 when sigma and E are both zero, the Arrhenian term otherwise.
calculate_arrhenian_single(Tk, sigma, E, r, alpha, water) ==
    IF sigma = 0 /\ E = 0 THEN 0 ELSE Arrhenian(Tk, sigma, E, r, alpha, water)

----------------------------------------------------------------------------
(* The GUI window (class SEEL of pide_gui.py) and its batch parameter      *)
(* file.  A float is held in thousandths, a one-element array as a         *)
(* sequence of one float, an int as itself.  A cell of the file is the     *)
(* text of a float (str of a float) or of an int (str of an int).          *)

\* The rows of init_param.csv the model follows: the name of a parameter
\* and the object that owns it.
init_params == << [name |-> "T", owner |-> "self"],
                  [name |-> "ol_frac", owner |-> "self"],
                  [name |-> "ol_cond_selection", owner |-> "SEEL"] >>

\* 'frac' in name.
NamesWithFrac == {"ol_frac"}

\* getattr(self, name) or getattr(SEEL, name).
AttributeOf(name) ==
    IF name = "T" THEN NdArray(gui_T)
    ELSE IF name = "ol_frac" THEN NdArray(gui_ol_frac)
    ELSE Scalar(gui_ol_cond_selection)

FloatText(v) == [form |-> "float", v |-> v]
\* str(int(val)): int() of a float drops the fraction.
IntText(val) ==
    [form |-> "int", v |-> IF val.kind = "scalar" THEN val.x ELSE val.xs[1] \div 1000]

\* The cell write_parameter_file_batch writes for a parameter.  For a name
\* with 'frac' the try block multiplies the str by 1e2 and for an int it
\* indexes the int: both raise TypeError, and the handler writes
\* str(int(val)).
CellWritten(name, val) ==
    IF val.kind = "scalar" \/ name \in NamesWithFrac
    THEN IntText(val)
    ELSE FloatText(val.xs[1])

\* QFileDialog.getOpenFileName and getSaveFileName of PyQt5 return the pair
\* (file name, selected filter).
FileDialog(chosen) == [kind |-> "tuple", name |-> chosen]

\* read_csv(filename, delim): open() takes a str and raises TypeError for a
\* tuple.
read_csv(filename, file) ==
    IF filename.kind = "tuple" THEN [raised |-> "TypeError", data |-> <<>>]
    ELSE [raised |-> "none", data |-> file]

\* float(text) of a cell, in thousandths.
FloatOf(cell) == IF cell.form = "int" THEN 1000 * cell.v ELSE cell.v

\* The header line and the line of cells of the window as it is.
ParameterLines ==
    [i \in 1..Len(init_params) |->
        [name |-> init_params[i].name,
         cell |-> CellWritten(init_params[i].name, AttributeOf(init_params[i].name))]]

\* write_parameter_file_batch: nothing is written when the dialog was
\* cancelled (the name is '').
write_parameter_file_batch(chosen) ==
    /\ param_file' = IF chosen = "" THEN param_file ELSE ParameterLines
    /\ call' = Call("write_parameter_file_batch", <<chosen>>, "none", 0)
    /\ UNCHANGED <<engine, solubility, grid, twin, bypass, calib, mare,
                   single_cond, opx_m, mixed_cond, gui_T, gui_ol_frac,
                   gui_ol_cond_selection>>

\* What read_parameter_file_batch makes of a file: read_csv is given what
\* the dialog returned.  Both tests "'selection' in name is True" and
\* "'method' in name is True" are chained comparisons and compare the name
\* with True, so every column takes the float branch and is assigned to the
\* window as a one-element array.
ParameterFileRead(filename, file) ==
    LET r == read_csv(filename, file)
        Column(name) == CHOOSE i \in 1..Len(r.data) : r.data[i].name = name
        Has(name) == \E i \in 1..Len(r.data) : r.data[i].name = name
        Value(name, old) ==
            IF r.raised = "none" /\ Has(name)
            THEN <<FloatOf(r.data[Column(name)].cell)>> ELSE old
    IN [raised |-> r.raised,
        T |-> Value("T", gui_T),
        ol_frac |-> Value("ol_frac", gui_ol_frac),
        \* the attribute of the window hides SEEL.ol_cond_selection
        ol_cond_selection_of_self |-> Value("ol_cond_selection", <<>>)]

read_parameter_file_batch(chosen) ==
    LET r == ParameterFileRead(FileDialog(chosen), param_file)
    IN /\ gui_T' = r.T
       /\ gui_ol_frac' = r.ol_frac
       /\ call' = Call("read_parameter_file_batch", <<chosen>>, r.raised, 0)
       /\ UNCHANGED <<engine, solubility, grid, twin, bypass, calib, mare,
                      single_cond, opx_m, mixed_cond, gui_ol_cond_selection, param_file>>

\* get_temp: the text of the dialog, a float above 0, becomes self.T.
get_temp(text) ==
    /\ gui_T' = IF text > 0 THEN <<text>> ELSE gui_T
    /\ call' = Call("get_temp", <<text>>, "none", 0)
    /\ UNCHANGED <<engine, solubility, grid, twin, bypass, calib, mare,
                   single_cond, opx_m, mixed_cond, gui_ol_frac,
                   gui_ol_cond_selection, param_file>>

\* get_mineral_value(param = "ol_frac"): the text is a percentage between 0
\* and 100 and self.ol_frac is float(text) / 1e2.
get_mineral_value(text) ==
    /\ gui_ol_frac' = IF text >= 0 /\ text <= 100000 THEN <<text \div 100>> ELSE gui_ol_frac
    /\ call' = Call("get_mineral_value", <<text>>, "none", 0)
    /\ UNCHANGED <<engine, solubility, grid, twin, bypass, calib, mare,
                   single_cond, opx_m, mixed_cond, gui_T,
                   gui_ol_cond_selection, param_file>>

----------------------------------------------------------------------------
(* mt_model_conversion: convert_2DModel_2_MARE2DEM.                         *)
(* A mesh is [y |-> mesh[0], z |-> mesh[1]], two matrices of the shape of  *)
(* the conductivity field; the field is the matrix of the values           *)
(* conductivity_array[i][j][0].  A length is held in halves of its unit,   *)
(* so that (right - left) / 2.0 is exact.  Boundaries are a function from  *)
(* the keys the caller gave; <<>> is None.                                  *)

Inf == -2
Kilo == 1000
BoundaryKeys == {"left", "right", "top", "bottom"}

\* 1.0 / x of numpy, conductivities in mS/m and resistivities in ohm m.
OneOver(x) == IF x = NaN THEN NaN ELSE IF x = 0 THEN Inf ELSE Reciprocal(x)

\* m * k, m - d and 1.0 / m, element by element.
Times(m, k) ==
    Array([i \in 1..Len(m) |-> Array([j \in 1..Len(m[i]) |-> m[i][j] * k], Len(m[i]))],
          Len(m))
Minus(m, d) ==
    Array([i \in 1..Len(m) |-> Array([j \in 1..Len(m[i]) |-> m[i][j] - d], Len(m[i]))],
          Len(m))
OneOverEach(m) ==
    Array([i \in 1..Len(m) |-> Array([j \in 1..Len(m[i]) |-> OneOver(m[i][j])], Len(m[i]))],
          Len(m))

Entries(m) == {m[i][j] : i \in 1..Len(m), j \in 1..Len(m[1])}
amin(m) == CHOOSE v \in Entries(m) : \A w \in Entries(m) : v <= w
amax(m) == CHOOSE v \in Entries(m) : \A w \in Entries(m) : v >= w

\* The boundary a missing key defaults to.
DefaultBoundary(item, meshIn) ==
    IF item = "top" THEN 0
    ELSE IF item = "right" THEN amax(meshIn.y)
    ELSE IF item = "left" THEN amin(meshIn.y)
    ELSE amax(meshIn.z)

WithDefaults(bnds, meshIn) ==
    [item \in BoundaryKeys |->
        IF item \in DOMAIN bnds THEN bnds[item] ELSE DefaultBoundary(item, meshIn)]

\* The mesh and the boundaries in metres.
InMetres(meshIn, b) ==
    [mesh |-> [y |-> Times(meshIn.y, Kilo), z |-> Times(meshIn.z, Kilo)],
     boundaries |-> [item \in BoundaryKeys |-> b[item] * Kilo]]

\* The mesh and the boundaries centred in the y direction.
Centred(m, b) ==
    LET mc_lateral == (b["right"] - b["left"]) \div 2
    IN [mesh |-> [y |-> Minus(m.y, mc_lateral), z |-> m.z],
        boundaries |-> [b EXCEPT !["right"] = @ - mc_lateral,
                                 !["left"] = @ - mc_lateral]]

\* The four comparisons with the right boundary taken as open.
InsideBounds_open_right(y, z, b) ==
    /\ y < b["right"]
    /\ y >= b["left"]
    /\ z <= b["bottom"]
    /\ z >= b["top"]

\* The four nested comparisons of a cell with the boundaries.
InsideBounds(y, z, b) ==
    /\ y <= b["right"]
    /\ y >= b["left"]
    /\ z <= b["bottom"]
    /\ z >= b["top"]

\* The loops over i and j: array_y, array_z, array_rho as rows <<y, z, rho>>.
ExportRows(rho, m, b) ==
    LET cols == Len(rho[1])
        Row(k) == ((k - 1) \div cols) + 1
        Col(k) == ((k - 1) % cols) + 1
        Keep(k) == /\ rho[Row(k)][Col(k)] # NaN
                   /\ InsideBounds(m.y[Row(k)][Col(k)], m.z[Row(k)][Col(k)], b)
        kept == SelectSeq([k \in 1..(Len(rho) * cols) |-> k], Keep)
    IN Array([n \in 1..Len(kept) |->
                 <<m.y[Row(kept[n])][Col(kept[n])], m.z[Row(kept[n])][Col(kept[n])],
                   rho[Row(kept[n])][Col(kept[n])]>>], Len(kept))

\* The whole function: how it ends, the caller's mesh and boundaries after
\* it, and the rows it saves.
Export(conductivity_array, meshIn, bnds, cond_unit, mesh_unit) ==
    LET rho == IF cond_unit = "conductivity" THEN OneOverEach(conductivity_array)
               ELSE conductivity_array
        b == WithDefaults(bnds, meshIn)
        metres == IF mesh_unit = "kilometres" THEN InMetres(meshIn, b)
                  ELSE [mesh |-> meshIn, boundaries |-> b]
        centred == Centred(metres.mesh, metres.boundaries)
    IN IF cond_unit \notin {"conductivity", "resistivity"}
       THEN [raised |-> "ValueError", mesh |-> meshIn, boundaries |-> bnds, rows |-> <<>>]
       ELSE IF mesh_unit \notin {"kilometres", "metres"}
       THEN [raised |-> "ValueError", mesh |-> meshIn,
             boundaries |-> IF bnds = <<>> THEN bnds ELSE b, rows |-> <<>>]
       ELSE [raised |-> "none", mesh |-> centred.mesh, boundaries |-> centred.boundaries,
             rows |-> ExportRows(rho, centred.mesh, centred.boundaries)]

convert_2DModel_2_MARE2DEM(conductivity_array, meshIn, bnds, cond_unit, mesh_unit) ==
    LET r == Export(conductivity_array, meshIn, bnds, cond_unit, mesh_unit)
    IN /\ mesh' = r.mesh
       /\ boundaries' = r.boundaries
       /\ written' = r.rows
       /\ call' = Call("convert_2DModel_2_MARE2DEM",
                       <<conductivity_array, meshIn, bnds, cond_unit, mesh_unit>>,
                       r.raised, IF r.raised = "none" THEN 1 ELSE 0)
       /\ UNCHANGED <<engine, solubility, grid, twin, bypass, calib, extra>>

----------------------------------------------------------------------------
(* SpecComp: the composition setters on temperature arrays of every length *)

TempShapes == {NdArray(s) : s \in SeqsOver({DefaultT}, 1, MaxLen)}

FracScalars == {-5, 0, 490, 495, 505, 510}
FracListVals == {495, 510}
\* Lists of every length up to MaxLen: all 0.495, or with one last value.
FracLists ==
    {[Fill(n, 495) EXCEPT ![n] = v] : n \in 1..MaxLen, v \in FracListVals}

\* The first phase gets a scalar or a list, the second 0.5; and one call gives
\* the second phase an array of MaxLen elements.
CompInputs ==
    {<<Scalar(a), Scalar(500)>> : a \in FracScalars}
    \cup {<<List(s), Scalar(500)>> : s \in FracLists}
    \cup {<<Scalar(495), NdArray(Fill(MaxLen, 500))>>}

\* overlookError = True is exercised with the scalar inputs.
CompCalls ==
    {<<c[1], c[2], FALSE>> : c \in CompInputs}
    \cup {<<Scalar(a), Scalar(500), TRUE>> : a \in FracScalars}

NextComp ==
    \/ \E Tin \in TempShapes : set_temperature(Tin)
    \/ \E c \in CompCalls : set_composition_solid_mineral(c[1], c[2], FALSE, c[3])
    \/ \E ov \in BOOLEAN :
          set_composition_solid_mineral(Scalar(0), Scalar(0), TRUE, ov)
    \/ \E c \in CompCalls : set_composition_solid_rock(c[1], c[2], FALSE, c[3])
    \/ \E ov \in BOOLEAN :
          set_composition_solid_rock(Scalar(0), Scalar(0), TRUE, ov)

SpecComp == Init /\ [][NextComp]_vars

----------------------------------------------------------------------------
(* C1: the composition band                                                *)

CompositionCall ==
    call.op \in {"set_composition_solid_mineral", "set_composition_solid_rock"}

\* The two fraction vectors the last composition setter assigned.
SetFrac1 == IF call.op = "set_composition_solid_mineral" THEN ol_frac ELSE granite_frac
SetFrac2 == IF call.op = "set_composition_solid_mineral" THEN opx_frac ELSE granulite_frac

\* A composition call that got past its array_modifier statements, with
\* overlookError left at its default False.
CheckedCompositionCall ==
    /\ CompositionCall
    /\ call.args[4].x = 0
    /\ call.raised # "RuntimeError"

NegativeFraction ==
    \E i \in 1..Len(SetFrac1) : SetFrac1[i] < 0 \/ SetFrac2[i] < 0

\* C1 as stated: a composition setter raises ValueError exactly when some
\* sample's fractions sum outside [0.99, 1.01] (or one is negative); sums of
\* exactly 0.99 and 1.01 are accepted.
C1_EndPointsAccepted ==
    CheckedCompositionCall =>
        ((call.raised = "ValueError") <=>
            (\/ NegativeFraction
             \/ \E i \in 1..Len(SetFrac1) :
                   \/ SetFrac1[i] + SetFrac2[i] < 990
                   \/ SetFrac1[i] + SetFrac2[i] > 1010))

\* C1 amended: with overlookError at its default, a composition setter raises
\* ValueError exactly when a fraction is negative or some sample's fractions
\* sum to 0.99 or less, or to 1.01 or more; it completes without error when
\* every sample's sum is strictly between 0.99 and 1.01.
C1_OpenBand ==
    CheckedCompositionCall =>
        ((call.raised = "ValueError") <=>
            (\/ NegativeFraction
             \/ \E i \in 1..Len(SetFrac1) :
                   \/ SetFrac1[i] + SetFrac2[i] <= 990
                   \/ SetFrac1[i] + SetFrac2[i] >= 1010))

\* A list of fractions accepted on a temperature array of two or more samples.
C1_Witness ==
    /\ CheckedCompositionCall
    /\ call.raised = "none"
    /\ call.args[1].kind = "list"
    /\ Len(T) >= 2
    /\ SetFrac1[2] + SetFrac2[2] = 995

----------------------------------------------------------------------------
(* SpecLen: the setters that store one vector per call, on temperature     *)
(* arrays of every length                                                  *)

\* A scalar, a list of every length, and an array of MaxLen elements.
ShapeInputs(v) ==
    {Scalar(v)} \cup {List(Fill(n, v)) : n \in 1..MaxLen} \cup {NdArray(Fill(MaxLen, v))}

ParamListVals == {1, 2}

\* set_parameter also gets lists and arrays of unequal elements.
ParamInputs ==
    {Scalar(1)}
    \cup {List(s) : s \in SeqsOver(ParamListVals, 1, MaxLen)}
    \cup {NdArray(s) : s \in SeqsOver({2}, 1, MaxLen)}

NextLen ==
    \/ \E Tin \in TempShapes : set_temperature(Tin)
    \/ \E P \in ShapeInputs(DefaultP) : set_pressure(P)
    \/ \E d \in ShapeInputs(DefaultP * DepthPerGPa) : set_depth(d)
    \/ \E v \in ParamInputs : set_parameter(v)
    \/ \E v \in ShapeInputs(0) : set_melt_fluid_frac(v)
    \/ \E v \in ShapeInputs(0) : set_bulk_water(v)
    \/ \E v \in ShapeInputs(0) : set_mineral_water(v, FALSE, FALSE)
    \/ set_mineral_water(Scalar(0), TRUE, FALSE)

SpecLen == Init /\ [][NextLen]_vars

----------------------------------------------------------------------------
(* C2: one common length                                                   *)

AllVectors == {p, depth, ol_frac, opx_frac, granite_frac, granulite_frac,
               ol_water, bulk_water, ol_xfe, param, melt_fluid_mass_frac,
               ol_m, granite_m, melt_fluid_m}

\* The vectors a setter assigns.
AssignedBy(op) ==
    CASE op = "set_pressure" -> {p, depth}
      [] op = "set_depth" -> {depth}
      [] op = "set_parameter" -> {param}
      [] op = "set_melt_fluid_frac" -> {melt_fluid_mass_frac}
      [] op = "set_bulk_water" -> {bulk_water, ol_water}
      [] op = "set_mineral_water" -> {ol_water}
      [] OTHER -> {}

----------------------------------------------------------------------------
(* C7: scalar, list and array arguments                                    *)

ArrayModifierCall == call.op \in {"set_depth", "set_parameter"}

StoredVector == IF call.op = "set_depth" THEN depth ELSE param

----------------------------------------------------------------------------
(* SpecExp: the interconnectivity setters                                  *)

ExpScalars == {5, MinExponent, DefaultSolidM}

\* One phase gets the exponent under test, the other the default 4.
SolidExpInputs ==
    {<<Scalar(a), Scalar(DefaultSolidM)>> : a \in ExpScalars}
    \cup {<<Scalar(DefaultSolidM), Scalar(a)>> : a \in ExpScalars}
    \cup {<<List(Fill(n, 5)), Scalar(DefaultSolidM)>> : n \in 1..MaxLen}

MeltExpInputs ==
    {Scalar(a) : a \in {0, 5, MinExponent, DefaultMeltM}}
    \cup {List(<<5>> \o Fill(n, DefaultMeltM)) : n \in 0..(MaxLen - 1)}

NextExp ==
    \/ \E Tin \in TempShapes : set_temperature(Tin)
    \/ \E c \in SolidExpInputs, ov \in BOOLEAN :
          set_phase_interconnectivities(c[1], c[2], FALSE, ov)
    \/ set_phase_interconnectivities(Scalar(0), Scalar(0), TRUE, FALSE)
    \/ \E v \in MeltExpInputs : set_melt_fluid_interconnectivity(v, FALSE)
    \/ set_melt_fluid_interconnectivity(Scalar(0), TRUE)

SpecExp == Init /\ [][NextExp]_vars

----------------------------------------------------------------------------
(* C8: no exponent below 1                                                 *)

----------------------------------------------------------------------------
(* SpecMix: the mixing-method setters and the mixing they select           *)

MixInputs == (-1)..(MaxMixIndex + 1)

NextMix ==
    \/ \E m \in MixInputs : set_solid_phs_mix_method(m)
    \/ \E m \in MixInputs : set_solid_melt_fluid_mix_method(m)
    \/ \E ol \in {500, 1000} :
          set_composition_solid_mineral(Scalar(ol), Scalar(0), FALSE, FALSE)
    \/ \E method \in {"array", "index", "none"} : calculate_conductivity(method)

SpecMix == Init /\ [][NextMix]_vars

----------------------------------------------------------------------------
(* C9: the mixing laws 0 to 5                                              *)

MixMethodCall ==
    call.op \in {"set_solid_phs_mix_method", "set_solid_melt_fluid_mix_method"}

\* C9: the mix-method setters accept exactly the indices 0 to 5 and raise
\* ValueError for every other index, and the mixing never runs with a solid
\* method that selects no law.
C9_OnlyDefinedLaws ==
    /\ MixMethodCall =>
          ((call.raised = "none") <=> (call.args[1].x \in 0..(NumMixLaws - 1)))
    /\ (call.op = "calculate_conductivity" /\ call.raised = "none") => bulk_cond.law

----------------------------------------------------------------------------
(* SpecChoice: the conductivity-model selections and the density that      *)
(* indexes the tables with them                                            *)

ChoiceInputs == {-1, 0, NumModels - 1, NumModels, NumModels + 1}

NextChoice ==
    \/ \E ol \in ChoiceInputs : set_mineral_conductivity_choice(ol)
    \/ \E granite \in ChoiceInputs : set_rock_conductivity_choice(granite)
    \/ \E melt \in ChoiceInputs : set_melt_fluid_conductivity_choice(melt, 0)
    \/ \E fluid \in ChoiceInputs : set_melt_fluid_conductivity_choice(0, fluid)
    \/ \E mode \in {"mineral", "rock", "other"} : set_solid_phase_method(mode)
    \/ set_composition_solid_mineral(Scalar(1000), Scalar(0), FALSE, FALSE)
    \/ set_composition_solid_rock(Scalar(1000), Scalar(0), FALSE, FALSE)
    \/ calculate_density_solid

SpecChoice == Init /\ [][NextChoice]_vars

----------------------------------------------------------------------------
(* C10: selections within the model tables                                 *)

InTable(sel) == sel >= 0 /\ sel < NumModels

\* C10: a *_conductivity_choice setter raises ValueError exactly when an index
\* it is given is negative or not smaller than the number of models of the
\* phase, so the selections a completed call leaves all index a model row.
C10_SelectionsInTable ==
    /\ call.op = "set_mineral_conductivity_choice" =>
          ((call.raised = "none") <=> InTable(ol_cond_selection))
    /\ call.op = "set_rock_conductivity_choice" =>
          ((call.raised = "none") <=> InTable(granite_cond_selection))
    /\ call.op = "set_melt_fluid_conductivity_choice" =>
          ((call.raised = "none") <=>
              (InTable(melt_cond_selection) /\ InTable(fluid_cond_selection)))

----------------------------------------------------------------------------
(* SpecDens: the setters that the solid density depends on, and            *)
(* calculate_density_solid                                                 *)

NextDens ==
    \/ \E t \in {-1, 1000} : set_temperature(NdArray(<<t>>))
    \/ set_pressure(Scalar(2))
    \/ \E ol \in {500, 1000} :
          set_composition_solid_mineral(Scalar(ol), Scalar(0), FALSE, FALSE)
    \/ \E ol \in {1, NumModels + 1} : set_mineral_conductivity_choice(ol)
    \/ calculate_density_solid

SpecDens == Init /\ [][NextDens]_vars

----------------------------------------------------------------------------
(* SpecFug: T, p and composition setters, and calculate_water_fugacity     *)

FugTemps == {NdArray(<<1000>>), NdArray(<<-1>>), NdArray(Fill(MaxLen, DefaultT))}

FugPressures == {Scalar(2), List(Fill(MaxLen, 2))}

NextFug ==
    \/ \E Tin \in FugTemps : set_temperature(Tin)
    \/ \E P \in FugPressures : set_pressure(P)
    \/ \E ol \in {500, 1000} :
          set_composition_solid_mineral(Scalar(ol), Scalar(0), FALSE, FALSE)
    \/ calculate_water_fugacity

SpecFug == Init /\ [][NextFug]_vars

----------------------------------------------------------------------------
(* SpecCond: setters before and after calculate_conductivity               *)

NextCond ==
    \/ \E t \in {-1, 1000} : set_temperature(NdArray(<<t>>))
    \/ set_composition_solid_mineral(Scalar(1000), Scalar(0), FALSE, FALSE)
    \/ \E f \in {0, 100} : set_melt_fluid_frac(Scalar(f))
    \/ \E x \in {DefaultXfe, 2 * DefaultXfe} : set_xfe_mineral(Scalar(x), FALSE)
    \/ set_xfe_mineral(Scalar(0), TRUE)
    \/ \E ol \in {1, NumModels + 1} : set_mineral_conductivity_choice(ol)
    \/ \E method \in {"array", "index", "none"} : calculate_conductivity(method)

SpecCond == Init /\ [][NextCond]_vars

----------------------------------------------------------------------------
(* C3: the cached solid density                                            *)

DensitySetterCall ==
    call.op \in {"set_temperature", "set_pressure", "set_composition_solid_mineral",
                 "set_composition_solid_rock", "set_mineral_conductivity_choice",
                 "set_rock_conductivity_choice"}

\* C3: after a call of a T, p, composition or model-selection setter
\* density_loaded is False, and a density that calculate_density_solid keeps
\* as loaded is the density of the current T, p, composition and selections.
C3_DensityIsCurrent ==
    /\ DensitySetterCall => ~density_loaded
    /\ (call.op = "calculate_density_solid" /\ call.raised = "none") =>
          density_solids = IF solid_phase_method = 1 THEN RockDensity ELSE MineralDensity

----------------------------------------------------------------------------
(* C4: cond_calculated                                                     *)

StateSetterCall ==
    call.op \in {"set_temperature", "set_composition_solid_mineral",
                 "set_mineral_conductivity_choice", "set_xfe_mineral",
                 "set_melt_fluid_frac"}

\* C4 as stated: a completed setter call that changes T, p, composition or a
\* model selection leaves cond_calculated False.
C4_SettersReset ==
    (StateSetterCall /\ call.raised = "none") => ~cond_calculated

\* C4 amended: cond_calculated is False after construction, a completed
\* calculate_conductivity sets it to True, only calculate_conductivity changes
\* it, and no setter resets it: once True it stays True, so it tells that the
\* conductivities have been computed, not that they belong to the current
\* state.
C4_OneWay ==
    /\ [](cond_calculated <=> bulk_cond.set)
    /\ []((call.op = "calculate_conductivity" /\ call.raised = "none") => cond_calculated)
    /\ [][cond_calculated => cond_calculated']_vars
    /\ [][cond_calculated' # cond_calculated => call'.op = "calculate_conductivity"]_vars

\* A setter has completed after the conductivities were computed, and the
\* flag is still True.
C4_Witness ==
    /\ cond_calculated
    /\ call.op = "set_temperature" /\ call.raised = "none"
    /\ T # <<DefaultT>>

----------------------------------------------------------------------------
(* C5: the cached water fugacity                                           *)

\* C5: a water fugacity that is flagged as calculated was computed from the
\* current T and p.
C5_FugacityIsCurrent ==
    water_fugacity_calculated => water_fugacity = [set |-> TRUE, T |-> T, p |-> p]

----------------------------------------------------------------------------
(* C6: temperature_default                                                 *)

\* C6: temperature_default is True only while set_temperature has not been
\* called, that is while T is the array construction left, and False after
\* any call of set_temperature; a composition setter prints the advisory
\* exactly when the flag is True.
C6_DefaultUntilCalled ==
    /\ call.op = "set_temperature" => ~temperature_default
    /\ temperature_default => T = <<DefaultT>>
    /\ call.op = "set_composition_solid_mineral" =>
          ((call.printed > 0) <=> temperature_default)

----------------------------------------------------------------------------
(* SpecSol: the solubility choices and the solubility calculation          *)

NextSol ==
    \/ \E ol \in 0..Len(OlSolNames), opx \in 0..Len(OpxSolNames) :
          set_mantle_water_solubility(ol, opx, 0)
    \/ \E min_idx \in {10, 4}, direct_ok \in BOOLEAN :
          calculate_mineral_water_solubility(min_idx, direct_ok)

SpecSol == Init /\ [][NextSol]_vars

----------------------------------------------------------------------------
(* C11: the olivine / opx mutual reference                                 *)

MutualReference ==
    /\ InList(ol_sol_choice, OlSolNames) /\ OlSolNames[ol_sol_choice + 1] = "FromOpx"
    /\ InList(opx_sol_choice, OpxSolNames) /\ OpxSolNames[opx_sol_choice + 1] = "FromOl"

AskedMutualReference ==
    /\ call.op = "set_mantle_water_solubility"
    /\ InList(call.args[1].x, OlSolNames) /\ OlSolNames[call.args[1].x + 1] = "FromOpx"
    /\ InList(call.args[2].x, OpxSolNames) /\ OpxSolNames[call.args[2].x + 1] = "FromOl"

\* C11: set_mantle_water_solubility asked for olivine 'FromOpx' together with
\* opx 'FromOl' raises ValueError and leaves the olivine choice at 0; the two
\* choices never refer to each other, and no solubility calculation runs into
\* an endless chain of nested calls.
C11_MutualReferenceRejected ==
    /\ AskedMutualReference => (call.raised = "ValueError" /\ ol_sol_choice = 0)
    /\ ~MutualReference
    /\ call.raised # "RecursionError"

\* The mutual reference was asked for and rejected, with opx left at 'FromOl'.
C11_Witness ==
    /\ AskedMutualReference
    /\ call.raised = "ValueError"
    /\ OpxSolNames[opx_sol_choice + 1] = "FromOl"

----------------------------------------------------------------------------
(* SpecGrid: a Model on a grid, its conductivity fields and the            *)
(* deformation related conductivity                                        *)

\* Label grids: material 1 in every cell; in every cell but the last, which
\* is material 2; in every cell but the third, which is material 2; and
\* two cells of each material in front of cells without any.
GridLabels ==
    {Fill(NumCells, 1),
     [i \in 1..NumCells |-> IF i = NumCells THEN 2 ELSE 1],
     [i \in 1..NumCells |-> IF i = 3 THEN 2 ELSE 1],
     [i \in 1..NumCells |-> IF i <= 2 THEN 1 ELSE IF i <= 4 THEN 2 ELSE 0]}

GridTemps == [i \in 1..NumCells |-> 100 * (9 + i)]

\* No melt anywhere, and melt everywhere but in the first two cells.
GridMelts == {Fill(NumCells, 0), [i \in 1..NumCells |-> IF i <= 2 THEN 0 ELSE 50]}

\* No strain field, and a field of unstrained and fully strained cells.
GridStrains ==
    {<<>>, [i \in 1..NumCells |-> IF i % 2 = 1 THEN 0 ELSE 2 * HighDeformation]}

RockWithMeltField == Material(1, "rock", 0, 0, "field", 0, 3000, 0, 0)
RockWithMeltValue == Material(1, "rock", 0, 1, "value", 100, 3000, 0, 0)
ByValue(res) == Material(2, "value", res, 0, "none", 0, 0, 0, 0)

GridLists ==
    {<<RockWithMeltField, ByValue(50)>>, <<ByValue(50), RockWithMeltValue>>}

GridLists2 ==
    {<<>>, <<RockWithMeltValue>>, <<ByValue(10)>>}

FieldTypes == {"background", "maximum", "both"}

NextGrid ==
    \/ \E labels \in GridLabels, melt \in GridMelts, strain \in GridStrains,
          list \in GridLists, list_2 \in GridLists2 :
          Model_grid(labels, GridTemps, melt, strain, list, list_2)
    \/ \E type \in FieldTypes, num_cpu \in 1..(CpuCount + 1) :
          Model_calculate_conductivity(type, num_cpu)
    \/ \E num_cpu \in 1..(CpuCount + 1) :
          Model_calculate_deformation_related_conductivity(num_cpu)

SpecGrid == Init /\ [][NextGrid]_vars

----------------------------------------------------------------------------
(* SpecColumn: a Model on a depth column and its geothermal block          *)

ColumnDepths == [i \in 1..NumCells |-> 10 * (i - 1)]

\* Layers between the depths 0, 20, 30 and 50, top above bottom.
ColumnLayers ==
    {Material(1, "rock", 0, 0, "none", 0, 0, r[1], r[2]) :
        r \in {r \in {0, 20, 30} \X {20, 30, 50} : r[1] < r[2]}}

NextColumn ==
    \/ \E list \in SeqsOver(ColumnLayers, 1, 3) :
          Model_column(ColumnDepths, GridTemps, list)
    \/ Model_calculate_geothermal_block

SpecColumn == Init /\ [][NextColumn]_vars

----------------------------------------------------------------------------
(* C12: one worker and several workers                                     *)

ConductivityReturned ==
    call.op = "Model.calculate_conductivity" /\ call.raised = "none"

\* A material whose slices went to workers, one slice without any melt in a
\* material that has melt.
MeltInSomeSlicesOnly ==
    \E m \in 1..Len(sliced_material_idx) :
        LET s == sliced_material_idx[m]
        IN /\ s.num_cpu > 1
           /\ Sum(Gather(melt_frac, s.material_idx)) # 0
           /\ \E j \in 1..Len(s.sliced) : Sum(Gather(melt_frac, s.sliced[j])) = 0

\* C12: whatever number of workers Model.calculate_conductivity is given, the
\* arrays it returns are the arrays it returns with num_cpu = 1: the same
\* cells hold a value and each holds the same value.
C12_WorkersDoNotChangeFields ==
    ConductivityReturned => ret = ModelRun(call.args[1].kind, 1).cond_list

\* A run with workers on a material with melt in some of its slices only.
C12_Witness ==
    /\ ConductivityReturned
    /\ call.args[1].x > 1
    /\ call.args[1].kind = "background"
    /\ material_list[1].melt_fluid_incorporation_method = "field"
    /\ MeltInSomeSlicesOnly

----------------------------------------------------------------------------
(* C13: the slices handed to the workers                                   *)

RECURSIVE Concat(_)
Concat(seqs) == IF seqs = <<>> THEN <<>> ELSE Head(seqs) \o Concat(Tail(seqs))

\* The materials of the last call that were run by workers.
SlicedForWorkers == {m \in 1..Len(sliced_material_idx) : sliced_material_idx[m].num_cpu > 1}

\* C13 as stated: a material run by workers is cut into num_cpu slices.
C13_NumCpuSlices ==
    \A m \in SlicedForWorkers :
        Len(sliced_material_idx[m].sliced) = sliced_material_idx[m].num_cpu

\* C13: a material run by workers is cut into num_cpu slices of
\* len // num_cpu indexes each, and one more, shorter slice with the indexes
\* left over when len is no multiple of num_cpu; the slices follow each other
\* in the material's index array without gap or overlap, so every cell of the
\* material is in exactly one slice, at one position.
C13_SlicesPartitionTheMaterial ==
    \A m \in SlicedForWorkers :
        LET s == sliced_material_idx[m]
            len == Len(s.material_idx)
            size == len \div s.num_cpu
        IN /\ Len(s.sliced) = s.num_cpu + (IF len % s.num_cpu = 0 THEN 0 ELSE 1)
           /\ \A j \in 1..s.num_cpu : Len(s.sliced[j]) = size
           /\ \A j \in (s.num_cpu + 1)..Len(s.sliced) :
                  Len(s.sliced[j]) = len % s.num_cpu
           /\ Concat(s.sliced) = s.material_idx
           /\ \A i \in 1..Len(material_array) :
                  Cardinality({h \in (1..Len(s.sliced)) \X (1..len) :
                                  h[2] <= Len(s.sliced[h[1]]) /\ s.sliced[h[1]][h[2]] = i})
                  = (IF material_array[i] = s.material_index THEN 1 ELSE 0)

\* A material of five cells cut for two workers.
C13_Witness ==
    /\ ConductivityReturned
    /\ \E m \in SlicedForWorkers :
           /\ Len(sliced_material_idx[m].material_idx) % sliced_material_idx[m].num_cpu # 0
           /\ Len(sliced_material_idx[m].sliced) = 3

----------------------------------------------------------------------------
(* C14: cells outside every material                                       *)

Unassigned(list, i) ==
    \A m \in 1..Len(list) : list[m].material_index # material_array[i]

\* C14: in each field Model.calculate_conductivity returns, a cell that
\* belongs to no material of the list the field was computed from is NaN.
C14_UnassignedCellsAreNaN ==
    ConductivityReturned =>
        \A l \in 1..Len(ret) : \A i \in 1..Len(material_array) :
            Unassigned(ListHolder(call.args[1].kind)[l], i) => ret[l][i] = NaN

----------------------------------------------------------------------------
(* C15: deformation related conductivity before the fields exist           *)

DeformationCall == call.op = "Model.calculate_deformation_related_conductivity"

\* C15: called while background_cond or maximum_cond is missing,
\* calculate_deformation_related_conductivity stops with the NameError that
\* says both have to be assigned first, and returns nothing; it returns
\* arrays only when both fields exist.
C15_MissingFieldIsNamed ==
    DeformationCall =>
        /\ (background_cond = <<>> \/ maximum_cond = <<>>) =>
               (call.raised = "NameError" /\ ret = <<>>)
        /\ ret # <<>> => (background_cond # <<>> /\ maximum_cond # <<>>)

----------------------------------------------------------------------------
(* C16: the layers of the geothermal block                                 *)

GeothermalCall == call.op = "Model.calculate_geothermal_block"

SortedByTop(list) == \A i \in 2..Len(list) : list[i - 1].top <= list[i].top

\* C16: calculate_geothermal_block leaves the materials ordered by top; it
\* raises ValueError exactly when a material starts above the bottom of the
\* one before it; otherwise there is one slice per material, the slices are
\* runs of consecutive indexes that follow each other in depth order, and
\* every index of the depth array is in exactly one slice.
C16_LayersPartitionTheColumn ==
    GeothermalCall =>
        /\ SortedByTop(material_list)
        /\ (call.raised = "ValueError") =
               (\E i \in 2..Len(material_list) :
                    material_list[i].top < material_list[i - 1].bottom)
        /\ call.raised = "none" =>
               /\ Len(sliced_material_idx) = Len(material_list)
               /\ Concat(sliced_material_idx) = [i \in 1..Len(model_depth) |-> i]

\* Three layers given out of order, cut into three non-empty slices.
C16_Witness ==
    /\ GeothermalCall /\ call.raised = "none"
    /\ Len(sliced_material_idx) = 3
    /\ \A j \in 1..3 : sliced_material_idx[j] # <<>>
    /\ material_list[1].top < material_list[2].top

----------------------------------------------------------------------------
(* SpecTwin: one instance being configured, and a second one               *)

TwinTemps == {NdArray(<<DefaultT>>), NdArray(Fill(MaxLen, DefaultT))}
TwinWaters == {Scalar(0), Scalar(100)}
TwinExponents == {Scalar(DefaultSolidM), Scalar(2 * MinExponent)}

NextTwin ==
    \/ \E Tin \in TwinTemps : set_temperature(Tin)
    \/ \E ol \in TwinWaters : set_mineral_water(ol, FALSE, FALSE)
    \/ \E ol \in TwinExponents :
          set_phase_interconnectivities(ol, Scalar(DefaultSolidM), FALSE, FALSE)
    \/ set_xfe_mineral(Scalar(2 * DefaultXfe), FALSE)
    \/ pide_other
    \/ \E Tin \in TwinTemps : other_set_temperature(Tin)
    \/ \E ol \in TwinWaters : other_set_mineral_water(ol)
    \/ \E ol \in TwinExponents :
          other_set_phase_interconnectivities(ol, Scalar(DefaultSolidM))
    \/ other_set_xfe_mineral(Scalar(DefaultXfe))

SpecTwin == Init /\ [][NextTwin]_vars

----------------------------------------------------------------------------
(* C17: the state vectors of an instance and a second instance             *)

OtherInstanceCall ==
    call.op \in {"pide", "other.set_temperature", "other.set_mineral_water",
                 "other.set_xfe_mineral", "other.set_phase_interconnectivities"}

\* C17: constructing a second instance, or calling a setter on it, leaves T,
\* p, the fractions, the water contents, xfe and the interconnectivity
\* exponents of the first instance as they were.
C17_InstanceOwnsItsVectors ==
    [][OtherInstanceCall' =>
          UNCHANGED <<T, p, ol_frac, opx_frac, granite_frac, granulite_frac,
                      ol_water, ol_xfe, ol_m, granite_m>>]_vars

----------------------------------------------------------------------------
(* SpecBypass: the solid method -1 and the background resistivity          *)

NextBypass ==
    \/ \E Tin \in TwinTemps : set_temperature(Tin)
    \/ \E m \in {-1, 0, MaxMixIndex} : set_solid_phs_mix_method(m)
    \/ \E v \in {Scalar(1), Scalar(100), List(<<100, 200>>)} : set_bckgr_res(v)
    \/ \E ol \in {500, 1000} :
          set_composition_solid_mineral(Scalar(ol), Scalar(0), FALSE, FALSE)
    \/ \E method \in {"array", "none"} : calculate_conductivity(method)

SpecBypass == Init /\ [][NextBypass]_vars

----------------------------------------------------------------------------
(* C18: the solid conductivity with method -1                              *)

\* C18: after a calculation with the solid method -1, the solid conductivity
\* of every sample is 1 / the background resistivity of that sample.
C18_BypassGivesReciprocal ==
    (call.op = "calculate_conductivity" /\ call.raised = "none" /\ phs_mix_method = -1) =>
        /\ Len(solid_phase_cond) = Len(bckgr_res)
        /\ \A i \in 1..Len(bckgr_res) : solid_phase_cond[i] = Reciprocal(bckgr_res[i])

----------------------------------------------------------------------------
(* SpecCalib: the water calibration codes and the correction factor.       *)

MineralIndices == {11, 12, 15, 18, 21}
SourceCodes == 0..2

\* The codes set_watercalib accepts for the family of a mineral.
FamilyCodes(min_idx) == 0..(IF min_idx = Olivine THEN MaxOlCalib ELSE MaxCalib)

NextCalib ==
    \/ \E ol \in 0..(MaxOlCalib + 1), px_gt \in 0..MaxCalib, feldspar \in 0..MaxCalib :
          set_watercalib(ol, px_gt, feldspar)
    \/ \E min_idx \in MineralIndices, calib_object \in SourceCodes :
          Water_correction(min_idx, calib_object)
    \/ \E min_idx \in MineralIndices, calib_object \in SourceCodes :
          \E calib_object_2 \in FamilyCodes(min_idx) :
             SEEL_Water_correction(min_idx, calib_object, calib_object_2)

SpecCalib == Init /\ [][NextCalib]_vars

WaterCorrectionCall == call.op \in {"Water_correction", "SEEL.Water_correction"}

\* The target calibration code of the mineral's family in the last call, or
\* "Default" for a mineral of no family.
TargetCode ==
    IF call.args[1] = Olivine THEN call.args[3]
    ELSE IF call.args[1] \in PyroxenesGarnet THEN call.args[4]
    ELSE IF call.args[1] \in Feldspars THEN call.args[5]
    ELSE DefaultCalib

AllowedCodes ==
    /\ call.args[3] \in 0..MaxOlCalib
    /\ call.args[4] \in 0..MaxCalib
    /\ call.args[5] \in 0..MaxCalib

\* C19: under allowed calibration codes Water_correction returns for every
\* mineral index (it never fails), and what it returns is 1.0 whenever the
\* target calibration code of the mineral is 2 or 3 or the mineral is in no
\* calibration family.
C19_WaterCorrectionReturns ==
    (WaterCorrectionCall /\ AllowedCodes) =>
        /\ call.raised = "none"
        /\ (TargetCode \in {DefaultCalib, DefaultOlCalib}) => CORR_Factor = "1.0"

----------------------------------------------------------------------------
(* SpecMare: exports of small fields on small meshes.                      *)

\* np.meshgrid(ys, zs): the y of a cell is that of its column, the z that of
\* its row.
MeshGrid(ys, zs) ==
    [y |-> [i \in 1..Len(zs) |-> ys], z |-> [i \in 1..Len(zs) |-> [j \in 1..Len(ys) |-> zs[i]]]]

ExportMeshes == {MeshGrid(<<0, 2, 4>>, <<0, 2>>), MeshGrid(<<-2, 0, 3>>, <<-2, 2>>)}

ExportFields == {<<<<100, 100, 100>>, <<100, 100, 100>>>>,
                 <<<<NaN, 100, 200>>, <<100, 100, NaN>>>>,
                 <<<<100, NaN, 100>>, <<50, 0, 100>>>>,
                 <<<<NaN, NaN, NaN>>, <<100, 200, 50>>>>,
                 <<<<NaN, NaN, NaN>>, <<NaN, NaN, NaN>>>>}

ExportBoundaries == {<<>>, [left |-> 2], [right |-> 2, bottom |-> 0], [top |-> 2],
                     [left |-> 0, right |-> 3, top |-> -2, bottom |-> 2],
                     [left |-> 4, right |-> 0]}

NextMare ==
    \E conductivity_array \in ExportFields, meshIn \in ExportMeshes,
       bnds \in ExportBoundaries,
       cond_unit \in {"conductivity", "resistivity", "siemens"},
       mesh_unit \in {"kilometres", "metres", "feet"} :
       convert_2DModel_2_MARE2DEM(conductivity_array, meshIn, bnds, cond_unit, mesh_unit)

SpecMare == Init /\ [][NextMare]_vars

ExportDone == call.op = "convert_2DModel_2_MARE2DEM" /\ call.raised = "none"

\* The value of cell (i, j) the export holds: the reciprocal of a conductivity,
\* or the resistivity as given.
RhoAt(i, j) ==
    IF call.args[4] = "conductivity" THEN OneOver(call.args[1][i][j])
    ELSE call.args[1][i][j]

\* Cell (i, j) lies within the boundaries, both taken after centring.
WithinBoundaries(i, j) ==
    /\ boundaries["left"] <= mesh.y[i][j] /\ mesh.y[i][j] <= boundaries["right"]
    /\ boundaries["top"] <= mesh.z[i][j] /\ mesh.z[i][j] <= boundaries["bottom"]

CellsOfField == (1..Len(call.args[1])) \X (1..Len(call.args[1][1]))

\* C20: after an export the rows written are exactly the cells whose centred
\* coordinates lie within [left, right] x [top, bottom], bounds included,
\* and whose value is not NaN, each once.
C20_WrittenCellsAreThoseInBounds ==
    ExportDone =>
        /\ \A c \in CellsOfField :
              (WithinBoundaries(c[1], c[2]) /\ RhoAt(c[1], c[2]) # NaN)
              <=> (\E k \in 1..Len(written) :
                      written[k] = <<mesh.y[c[1]][c[2]], mesh.z[c[1]][c[2]], RhoAt(c[1], c[2])>>)
        /\ Len(written) = Cardinality({c \in CellsOfField :
                              WithinBoundaries(c[1], c[2]) /\ RhoAt(c[1], c[2]) # NaN})

\* An export that wrote a cell lying on the right boundary, left out a cell
\* outside the boundaries and left out a NaN cell inside them.
C20_Witness ==
    /\ ExportDone
    /\ \E k \in 1..Len(written) : written[k][1] = boundaries["right"]
    /\ \E c \in CellsOfField : ~WithinBoundaries(c[1], c[2]) /\ RhoAt(c[1], c[2]) # NaN
    /\ \E c \in CellsOfField : WithinBoundaries(c[1], c[2]) /\ RhoAt(c[1], c[2]) = NaN

----------------------------------------------------------------------------
(* C30: the centring of the export                                         *)

\* C30: after an export the boundaries are symmetric about zero, left =
\* -right, whatever left and right were given.
C30_CentredOnTheMidpoint ==
    ExportDone => boundaries["left"] = -boundaries["right"]

----------------------------------------------------------------------------
(* C27: the two fields of type 'both'                                      *)

\* C27: Model.calculate_conductivity(type = 'both') returns the field that
\* type = 'background' returns and the field that type = 'maximum' returns,
\* and the background field it caches is the one it returns.
C27_BothIsBackgroundAndMaximum ==
    (ConductivityReturned /\ call.args[1].kind = "both") =>
        /\ Len(ret) = 2
        /\ ret[1] = ModelRun("background", call.args[1].x).cond_list[1]
        /\ ret[2] = ModelRun("maximum", call.args[1].x).cond_list[1]
        /\ background_cond = ret[1]

----------------------------------------------------------------------------
(* C29: deformation related conductivity in one process                    *)

\* C29: with both fields computed, calculate_deformation_related_conductivity
\* called with num_cpu = 1 completes and returns four arrays.
C29_SingleProcessCompletes ==
    (/\ DeformationCall
     /\ call.args[1].x = 1
     /\ background_cond # <<>> /\ maximum_cond # <<>>) =>
        (call.raised = "none" /\ Len(ret) = 4)

----------------------------------------------------------------------------
(* C25: a rejected setter call                                             *)

SetterCalls == {"set_temperature", "set_pressure", "set_depth", "set_parameter",
                "set_melt_fluid_frac", "set_bulk_water", "set_mineral_water"}

\* C25: a setter call that ends with a ValueError leaves every state vector,
\* every class-level selection and every cache flag as it was before the
\* call.
C25_RejectedSetterChangesNothing ==
    [][(call'.op \in SetterCalls /\ call'.raised = "ValueError")
          => UNCHANGED <<engine, calib>>]_vars

----------------------------------------------------------------------------
(* SpecGarnet: the solubility choices of olivine, opx and garnet           *)

NextGarnet ==
    \/ \E ol \in 0..(Len(OlSolNames) - 1), opx \in 0..(Len(OpxSolNames) - 1),
          garnet \in 0..(Len(GarnetSolNames) - 1) :
          set_mantle_water_solubility(ol, opx, garnet)
    \/ \E min_idx \in {10, 4, 7}, direct_ok \in BOOLEAN :
          calculate_mineral_water_solubility(min_idx, direct_ok)

SpecGarnet == Init /\ [][NextGarnet]_vars

SolubilityCall == call.op = "calculate_mineral_water_solubility"

\* C28: under choices set_mantle_water_solubility accepts,
\* calculate_mineral_water_solubility follows the 'From' chain through a
\* bounded number of rerun_sol calls, never re-entering the calculation of a
\* mineral it is already in: no call ends in an endless chain of nested calls.
C28_FromChainEnds ==
    SolubilityCall => call.raised # "RecursionError"

----------------------------------------------------------------------------
(* SpecReval: a temperature array, some setters, and revalue_arrays        *)

NextReval ==
    \/ \E Tin \in TempShapes : set_temperature(Tin)
    \/ \E P \in {Scalar(DefaultP), NdArray(Fill(MaxLen, DefaultP))} : set_pressure(P)
    \/ \E v \in {Scalar(0), Scalar(100)} : set_bulk_water(v)
    \/ \E ol \in {Scalar(495), Scalar(400)} :
          set_composition_solid_mineral(ol, Scalar(500), FALSE, FALSE)
    \/ \E ol \in {Scalar(DefaultSolidM), Scalar(2 * MinExponent)} :
          set_phase_interconnectivities(ol, Scalar(DefaultSolidM), FALSE, FALSE)
    \/ \E mode \in {"mineral", "rock"} : set_solid_phase_method(mode)
    \/ revalue_arrays

SpecReval == Init /\ [][NextReval]_vars

\* The vectors revalue_arrays sets again, in the engine as constructed.
ConstructionLengths ==
    \A v \in {p, depth, bulk_water, melt_fluid_mass_frac, ol_frac, opx_frac,
              granite_frac, granulite_frac, ol_water, ol_xfe, ol_m, granite_m,
              melt_fluid_m} : Len(v) = 1

\* C22: called on an engine whose T has N samples while its other vectors
\* have one element each, revalue_arrays completes without error and leaves
\* every vector it sets with N elements.
C22_RevalueRebroadcasts ==
    [][(call'.op = "revalue_arrays" /\ ConstructionLengths /\ ~AnyBelow(T, 0)) =>
          /\ call'.raised = "none"
          /\ Len(p') = Len(T') /\ Len(depth') = Len(T')
          /\ Len(bulk_water') = Len(T') /\ Len(melt_fluid_mass_frac') = Len(T')
          /\ Len(ol_water') = Len(T') /\ Len(ol_xfe') = Len(T')
          /\ Len(ol_m') = Len(T') /\ Len(granite_m') = Len(T')
          /\ Len(melt_fluid_m') = Len(T')]_vars

----------------------------------------------------------------------------
(* SpecArrhenius: calculate_arrhenian_single over a grid of arguments      *)

ArrhenianTemps == {900, 1500}
ArrhenianSigmas == 0..2
ArrhenianEnthalpies == {0, 20000, 80000}
ArrhenianExponents == {0, 1}
ArrhenianAlphas == {0, 1000}
ArrhenianWaters == {0, 1, 10}

NextArrhenius ==
    \E Tk \in ArrhenianTemps, sigma \in ArrhenianSigmas, E \in ArrhenianEnthalpies,
       r \in ArrhenianExponents, alpha \in ArrhenianAlphas, water \in ArrhenianWaters :
       /\ single_cond' = calculate_arrhenian_single(Tk, sigma, E, r, alpha, water)
       /\ call' = Call("calculate_arrhenian_single",
                       <<Tk, sigma, E, r, alpha, water>>, "none", 0)
       /\ UNCHANGED <<engine, solubility, grid, twin, bypass, calib, mare, opx_m, mixed_cond,
                      batch>>

SpecArrhenius == Init /\ [][NextArrhenius]_vars

ArrhenianCall == call.op = "calculate_arrhenian_single"

\* C23: calculate_arrhenian_single returns exactly zero when sigma and E are
\* both zero, whatever T, r, alpha and water are, and the value of the
\* Arrhenian formula in every other case.
C23_ZeroMechanism ==
    ArrhenianCall =>
        IF call.args[2] = 0 /\ call.args[3] = 0
        THEN single_cond = 0
        ELSE single_cond = Arrhenian(call.args[1], call.args[2], call.args[3],
                              call.args[4], call.args[5], call.args[6])

\* A zero mechanism given water, a water exponent and alpha that are all
\* non-zero has returned zero.
C23_Witness ==
    /\ ArrhenianCall
    /\ call.args[2] = 0 /\ call.args[3] = 0 /\ single_cond = 0
    /\ call.args[4] # 0 /\ call.args[5] # 0 /\ call.args[6] # 0

----------------------------------------------------------------------------
(* SpecArchie: Generalized Archie's Law on one or several samples          *)

\* Olivine fractions, orthopyroxene being the rest of the rock.
ArchieFractions == {400, 600}
ArchieCompositions ==
    {Scalar(f) : f \in ArchieFractions}
        \cup {NdArray([i \in 1..MaxLen |-> IF i = 1 THEN 400 ELSE 600])}

Rest(ol) == IF ol.kind = "scalar" THEN Scalar(1000 - ol.x)
            ELSE NdArray([i \in 1..Len(ol.xs) |-> 1000 - ol.xs[i]])

NextArchie ==
    \/ \E n \in {1, MaxLen} : set_temperature(NdArray(Fill(n, DefaultT)))
    \/ \E ol \in ArchieCompositions :
          set_composition_solid_mineral(ol, Rest(ol), FALSE, FALSE)
    \/ set_phase_interconnectivities(Scalar(DefaultSolidM), Scalar(DefaultSolidM),
                                     FALSE, FALSE)
    \/ \E method \in {"array", "index"}, sol_idx \in 0..(MaxLen - 1) :
          calculate_conductivity_archie(method, sol_idx)

SpecArchie == Init /\ [][NextArchie]_vars

ArchieDone == call.op = "calculate_conductivity" /\ call.raised = "none"

\* What calculate_conductivity(method = 'index', sol_idx = i - 1) returns in
\* the present state.
IndexResult(i) ==
    ArchieMixing([ol |-> ol_m, opx |-> opx_m], "index", i - 1).bulk_cond[i]

\* C24: every element of the array calculate_conductivity('array') returns
\* is the value calculate_conductivity('index') returns for that sample on
\* the same engine state.
C24_ArrayIsIndexBySample ==
    [][(call'.op = "calculate_conductivity" /\ call'.raised = "none"
        /\ call'.args[1] = "array")
          => \A i \in 1..Len(T) : mixed_cond'[i] = IndexResult(i)]_vars

\* The exponents a freshly constructed engine has after the setters of
\* SpecArchie, which give every mineral the default exponent.
ConfiguredExponents ==
    [ol |-> Fill(Len(T), DefaultSolidM), opx |-> Fill(Len(T), DefaultSolidM)]

\* C26: the bulk conductivity a calculation returns is the one a freshly
\* constructed engine returns when configured with the same setter values,
\* whatever calculations came before.
C26_ResultFromSettersOnly ==
    ArchieDone =>
        mixed_cond = ArchieMixing(ConfiguredExponents, call.args[1], call.args[2]).bulk_cond

----------------------------------------------------------------------------
(* SpecBatch: the GUI window, writing and reading its parameter file       *)

GuiTemperatures == {-1000, 500000, 650500, 900000, 1200250}
GuiPercentages == {-5000, 0, 25000, 60000, 100000, 120000}
FileNames == {"", "state.csv"}

NextBatch ==
    \/ \E text \in GuiTemperatures : get_temp(text)
    \/ \E text \in GuiPercentages : get_mineral_value(text)
    \/ \E chosen \in FileNames : write_parameter_file_batch(chosen)
    \/ \E chosen \in FileNames : read_parameter_file_batch(chosen)

SpecBatch == Init /\ [][NextBatch]_vars

\* The cell of a parameter in the file.
CellOf(file, name) ==
    (CHOOSE c \in {file[i] : i \in 1..Len(file)} : c.name = name).cell

\* C21: a fraction is written to the file in per cent, and reading a
\* written file completes and leaves the window in the state the file was
\* written from: one that writes the same file again.
C21_FileReadsBackAsWritten ==
    [][/\ (call'.op = "write_parameter_file_batch" /\ call'.args[1] # "")
            => FloatOf(CellOf(param_file', "ol_frac")) = 100 * gui_ol_frac[1]
       /\ (call'.op = "read_parameter_file_batch" /\ call'.args[1] # ""
              /\ param_file # <<>>)
            => (call'.raised = "none" /\ ParameterLines' = param_file)]_vars

====
